---- MODULE Spec2Model ----
(***************************************************************************)
(* Command queuing and retry core of bevy_kira_audio:                      *)
(*   src/src/audio_output.rs  (AudioOutput: the dispatcher)                *)
(*   src/src/audio.rs         (AudioCommand, PartialSoundSettings, ...)    *)
(* A channel's command queue is a deque: producers push_front, the         *)
(* dispatcher pops from the back.  A deque is a sequence whose Head is the *)
(* front and whose last element is the back.                               *)
(* Volumes, playback rates and pannings are in hundredths (100 = 1.0).     *)
(***************************************************************************)
EXTENDS Integers, Sequences, FiniteSets, TLC

(* ------------------------------ bounds -------------------------------- *)
\* total number of commands enqueued over a behaviour of Spec
MaxCmds == 3
\* total number of commands enqueued over a behaviour of SpecBatch
MaxBatch == 4
\* total number of commands enqueued over a behaviour of SpecTween
MaxTweenCmds == 2
\* total number of commands enqueued over a behaviour of LiveSpec
MaxLive == 2
\* total number of commands enqueued over a behaviour of SpecOne
MaxOne == 3
\* number of entities spawned over a behaviour of SpecEntity
MaxEntities == 2
\* total number of commands enqueued over a behaviour of SpecEntity
MaxEntityCmds == 1
\* total number of commands enqueued over a behaviour of SpecLock
MaxLockCmds == 3
\* total number of commands enqueued over a behaviour of SpecPlay
MaxPlayCmds == 3
\* total number of commands enqueued over a behaviour of SpecVolume
MaxVolumeCmds == 3
\* number of command builders created over a behaviour of SpecBuild
MaxBuilders == 2
\* number of reverse() calls on one builder over a behaviour of SpecReverse
MaxReverse == 3

(* --------------------------- program values --------------------------- *)
\* Option::None of a numeric or boolean field
None == -1
\* ChannelSettings::default()
DefaultVolume == 100
DefaultPanning == 50
DefaultPlaybackRate == 100
\* the values the modelled application passes to set_volume / set_panning /
\* set_playback_rate
VolumeArgs == {50}
PanningArgs == {0}
RateArgs == {200}

\* Channel::Typed(TypeId::of::<T>()) and Channel::Dynamic(key)
TypedChannels == {"T"}
DynamicKeys == {"D"}
Channels == TypedChannels \cup DynamicKeys
Sources == {"s1", "s2"}
NoSource == "none"
NoHandle == <<"none", 0>>

Kinds == {"Play", "SetVolume", "SetPanning", "SetPlaybackRate", "Stop", "Pause", "Resume"}

\* PartialSoundSettings::default()
DefaultPartial ==
  [volume |-> None, playback_rate |-> None, panning |-> None,
   reverse |-> None, paused |-> FALSE]

\* ChannelSettings::default()
DefaultChannelSettings ==
  [paused |-> FALSE, volume |-> DefaultVolume, panning |-> DefaultPanning,
   playback_rate |-> DefaultPlaybackRate]

\* StaticSoundData of a decoded source (StaticSoundSettings::default())
BaseSound ==
  [volume |-> 100, playback_rate |-> 100, panning |-> 50, reverse |-> FALSE]

VARIABLES
  manager,          \* AudioOutput.manager is Some
  queues,           \* channel -> deque of AudioCommand (channel.commands)
  instances,        \* AudioOutput.instances: channel -> Vec<Handle>
  channels,         \* AudioOutput.channels: channel -> ChannelSettings
  audio_instances,  \* Assets<AudioInstance>: handle -> backend sound
  audio_sources,    \* Assets<AudioSource>: the loaded sources
  nextId,           \* number of commands built so far
  last,             \* history: channel -> the drain the dispatch that has just run made
                    \* of it (empty unless the last step was a dispatch)
  plays,            \* history: handle -> number of sounds the backend created for it
  skipped,          \* history: the channels whose drain returned at once in the last step
  queued_audio,     \* entities with a source and PlaybackSettings, Without<AudioInstance>
  entity_audio,     \* entities with an AudioInstance component: entity -> backend sound
  crashed,          \* a system has panicked
  lock,             \* the typed channel whose `commands` lock the dispatcher holds, or "free"
  pc,               \* where play_channel is: "idle", "loop", or "calling" the backend
  cur,              \* the drain in progress: the locals of play_channel
  waiting,          \* producer -> the command its que() is blocked with
  hist,             \* history: what became of each command, and who enqueued it
  builders,         \* the command builders in scope: id -> PlayAudioCommand / TweenCommand
  dropped           \* history: id -> the builder as it was when it went out of scope

\* the entity-based start path
entity_vars == <<queued_audio, entity_audio, crashed>>

\* the lock of a channel's deque and the steps of a drain under it
lock_vars == <<lock, pc, cur, waiting, hist>>

\* the command builders of the application code
build_vars == <<builders, dropped>>

aside == <<entity_vars, lock_vars, build_vars>>

vars == <<manager, queues, instances, channels, audio_instances, audio_sources,
          nextId, last, plays, skipped, queued_audio, entity_audio, crashed,
          lock, pc, cur, waiting, hist, builders, dropped>>

(* ------------------------------ helpers ------------------------------- *)
Has(m, k) == k \in DOMAIN m

Put(m, k, v) == [x \in (DOMAIN m) \cup {k} |-> IF x = k THEN v ELSE m[x]]

EmptyMap == [x \in {} |-> 0]

Range(s) == {s[i] : i \in 1..Len(s)}

Reverse(s) == [i \in 1..Len(s) |-> s[Len(s) + 1 - i]]

\* the element of a singleton; {e(x) : x \in {v}} computes v once for e
The(S) == CHOOSE y \in S : TRUE

\* VecDeque::push_front
push_front(q, c) == <<c>> \o q

\* the element at the other end of the deque
front(q) == q[1]

\* VecDeque::pop_back: the element and the rest
back(q) == q[Len(q)]

without_back(q) == SubSeq(q, 1, Len(q) - 1)

(* ----------------------------- commands ------------------------------- *)
\* AudioCommand, with the id of the builder that made it
Cmd(id, kind, value, source, handle, settings) ==
  [id |-> id, kind |-> kind, value |-> value, source |-> source,
   handle |-> handle, settings |-> settings, tween |-> None]

\* PlayAudioCommand::new + Drop: a fresh instance handle, the source, the settings
PlayCmd(id, ch, source, settings) ==
  Cmd(id, "Play", None, source, <<ch, id>>, settings)

\* TweenCommandKind::to_command
TweenCmd(id, kind, value) ==
  Cmd(id, kind, value, NoSource, NoHandle, DefaultPartial)

(* ------------------------------ backend ------------------------------- *)
\* Result<(), CommandError> of a per-handle backend call:
\* Ok, Err(CommandQueueFull), Err(other)
Outcomes == {"ok", "full", "err"}

\* the largest number of commands any specification enqueues
MaxId ==
  CHOOSE m \in {MaxCmds, MaxBatch, MaxTweenCmds, MaxLive, MaxOne, MaxEntityCmds,
                MaxLockCmds, MaxBuilders, MaxPlayCmds, MaxVolumeCmds} :
    \A n \in {MaxCmds, MaxBatch, MaxTweenCmds, MaxLive, MaxOne, MaxEntityCmds,
               MaxLockCmds, MaxBuilders, MaxPlayCmds, MaxVolumeCmds} : n <= m

Handles == {<<ch, id>> : ch \in Channels, id \in 1..MaxId}

\* kira::sound::PlaybackState
SoundStates == {"Playing", "Pausing", "Paused", "Stopping", "Stopped"}

\* what an accepted command does to a backend sound
Effect(sound, op, v) ==
  IF sound.state = "Stopped" THEN sound
  ELSE CASE op = "stop" -> [sound EXCEPT !.state = "Stopping"]
         [] op = "pause" -> [sound EXCEPT !.state = "Pausing"]
         [] op = "resume" -> [sound EXCEPT !.state = "Playing"]
         [] op = "set_volume" -> [sound EXCEPT !.volume = v]
         [] op = "set_panning" -> [sound EXCEPT !.panning = v]
         [] op = "set_playback_rate" -> [sound EXCEPT !.playback_rate = v]

\* one call instance.handle.<op>(v, tween) whose outcome is resp[h]; the
\* record of the call keeps the state of the sound before and after it
call(st, op, h, v, resp) ==
  [st EXCEPT !.ai[h] = IF resp[h] = "ok" THEN Effect(@, op, v) ELSE @,
             !.calls = Append(@, [op |-> op, h |-> h, v |-> v, out |-> resp[h],
                                  was |-> st.ai[h].state,
                                  now |-> IF resp[h] = "ok"
                                          THEN Effect(st.ai[h], op, v).state
                                          ELSE st.ai[h].state])]

(* ---------------------------- AudioOutput ----------------------------- *)
\* an order in which channels.channels.iter() visits the keys
KeyOrder(keys) ==
  CHOOSE order \in [1..Cardinality(keys) -> keys] :
    \A i, j \in 1..Cardinality(keys) : i # j => order[i] # order[j]

\* a lookup that takes the instances of every channel
handles_of_any(st, ch) ==
  LET A[i \in 0..Cardinality(DOMAIN st.instances)] ==
        IF i = 0 THEN <<>>
        ELSE A[i - 1] \o st.instances[KeyOrder(DOMAIN st.instances)[i]]
  IN A[Cardinality(DOMAIN st.instances)]

\* the Vec of instance handles of a channel (empty when the map has no entry)
handles_of(st, ch) == IF Has(st.instances, ch) THEN st.instances[ch] ELSE <<>>

RECURSIVE stop_loop(_, _, _, _)
stop_loop(st, hs, i, resp) ==
  IF i > Len(hs) THEN [st |-> st, result |-> "Ok"]
  ELSE IF ~Has(st.ai, hs[i]) THEN stop_loop(st, hs, i + 1, resp)
  ELSE IF resp[hs[i]] = "full"
       THEN [st |-> call(st, "stop", hs[i], None, resp), result |-> "Retry"]
       ELSE stop_loop(call(st, "stop", hs[i], None, resp), hs, i + 1, resp)

\* a stop that also empties the channel's instance list
stop_and_forget(st, ch, resp) ==
  LET r == stop_loop(st, handles_of(st, ch), 1, resp)
  IN [st |-> [r.st EXCEPT !.instances =
                [c \in DOMAIN @ |-> IF c = ch THEN <<>> ELSE @[c]]],
      result |-> r.result]

\* AudioOutput::stop
stop(st, ch, resp) == stop_loop(st, handles_of(st, ch), 1, resp)

\* a loop that pauses every instance it finds, whatever its state
RECURSIVE pause_loop_any(_, _, _, _)
pause_loop_any(st, hs, i, resp) ==
  IF i > Len(hs) THEN st
  ELSE IF Has(st.ai, hs[i])
       THEN pause_loop_any(call(st, "pause", hs[i], None, resp), hs, i + 1, resp)
       ELSE pause_loop_any(st, hs, i + 1, resp)

RECURSIVE pause_loop(_, _, _, _)
pause_loop(st, hs, i, resp) ==
  IF i > Len(hs) THEN st
  ELSE IF Has(st.ai, hs[i]) /\ st.ai[hs[i]].state = "Playing"
       THEN pause_loop(call(st, "pause", hs[i], None, resp), hs, i + 1, resp)
       ELSE pause_loop(st, hs, i + 1, resp)

\* a pause that records the flag only for a channel that has settings
pause_existing_only(st, ch, resp) ==
  LET s1 == pause_loop(st, handles_of(st, ch), 1, resp)
  IN [s1 EXCEPT !.channels =
        IF Has(@, ch) THEN [@ EXCEPT ![ch].paused = TRUE] ELSE @]

\* AudioOutput::pause
pause(st, ch, resp) ==
  LET s1 == pause_loop(st, handles_of(st, ch), 1, resp)
  IN [s1 EXCEPT !.channels =
        IF Has(@, ch) THEN [@ EXCEPT ![ch].paused = TRUE]
        ELSE Put(@, ch, [DefaultChannelSettings EXCEPT !.paused = TRUE])]

RECURSIVE resume_loop(_, _, _, _)
resume_loop(st, hs, i, resp) ==
  IF i > Len(hs) THEN st
  ELSE IF Has(st.ai, hs[i]) /\ st.ai[hs[i]].state \in {"Paused", "Pausing", "Stopping"}
       THEN resume_loop(call(st, "resume", hs[i], None, resp), hs, i + 1, resp)
       ELSE resume_loop(st, hs, i + 1, resp)

\* a resume that leaves the channel's settings as they are
resume_instances_only(st, ch, resp) ==
  resume_loop(st, handles_of(st, ch), 1, resp)

\* AudioOutput::resume
resume(st, ch, resp) ==
  LET s1 == resume_loop(st, handles_of(st, ch), 1, resp)
  IN [s1 EXCEPT !.channels =
        IF Has(@, ch) THEN [@ EXCEPT ![ch].paused = FALSE]
        ELSE Put(@, ch, DefaultChannelSettings)]

RECURSIVE set_loop(_, _, _, _, _, _)
set_loop(st, hs, i, op, v, resp) ==
  IF i > Len(hs) THEN st
  ELSE IF Has(st.ai, hs[i])
       THEN set_loop(call(st, op, hs[i], v, resp), hs, i + 1, op, v, resp)
       ELSE set_loop(st, hs, i + 1, op, v, resp)

\* a set_volume that scales the channel's volume instead of replacing it
set_volume_scaling(st, ch, volume, resp) ==
  LET s1 == set_loop(st, handles_of(st, ch), 1, "set_volume", volume, resp)
  IN [s1 EXCEPT !.channels =
        IF Has(@, ch) THEN [@ EXCEPT ![ch].volume = (@ * volume) \div 100]
        ELSE Put(@, ch, [DefaultChannelSettings EXCEPT !.volume = volume])]

\* AudioOutput::set_volume
set_volume(st, ch, volume, resp) ==
  LET s1 == set_loop(st, handles_of(st, ch), 1, "set_volume", volume, resp)
  IN [s1 EXCEPT !.channels =
        IF Has(@, ch) THEN [@ EXCEPT ![ch].volume = volume]
        ELSE Put(@, ch, [DefaultChannelSettings EXCEPT !.volume = volume])]

\* AudioOutput::set_panning
set_panning(st, ch, panning, resp) ==
  LET s1 == set_loop(st, handles_of(st, ch), 1, "set_panning", panning, resp)
  IN [s1 EXCEPT !.channels =
        IF Has(@, ch) THEN [@ EXCEPT ![ch].panning = panning]
        ELSE Put(@, ch, [DefaultChannelSettings EXCEPT !.panning = panning])]

\* AudioOutput::set_playback_rate
set_playback_rate(st, ch, playback_rate, resp) ==
  LET s1 == set_loop(st, handles_of(st, ch), 1, "set_playback_rate", playback_rate, resp)
  IN [s1 EXCEPT !.channels =
        IF Has(@, ch) THEN [@ EXCEPT ![ch].playback_rate = playback_rate]
        ELSE Put(@, ch, [DefaultChannelSettings EXCEPT !.playback_rate = playback_rate])]

\* ChannelSettings::apply: the channel's volume scales the sound's, its
\* playback rate and panning replace the sound's
channel_apply(cs, sound) ==
  [sound EXCEPT !.volume = (cs.volume * @) \div 100,
                !.playback_rate = cs.playback_rate,
                !.panning = cs.panning]

\* PartialSoundSettings::apply with the request volume replacing the volume
partial_apply_replacing(settings, sound) ==
  [sound EXCEPT
     !.volume = IF settings.volume # None THEN settings.volume ELSE @,
     !.playback_rate = IF settings.playback_rate # None
                       THEN settings.playback_rate ELSE @,
     !.panning = IF settings.panning # None THEN settings.panning ELSE @,
     !.reverse = IF settings.reverse # None THEN settings.reverse = 1 ELSE @]

\* PartialSoundSettings::apply
partial_apply(settings, sound) ==
  [sound EXCEPT
     !.volume = IF settings.volume # None THEN (settings.volume * @) \div 100 ELSE @,
     !.playback_rate = IF settings.playback_rate # None
                       THEN settings.playback_rate ELSE @,
     !.panning = IF settings.panning # None THEN settings.panning ELSE @,
     !.reverse = IF settings.reverse # None THEN settings.reverse = 1 ELSE @]

\* sound.settings.playback_rate = Value::Fixed(PlaybackRate::Factor(0.0))
zero_rate(sound, cond) == IF cond THEN [sound EXCEPT !.playback_rate = 0] ELSE sound

\* the sound AudioOutput::play hands to manager.play
sound_to_play(st, ch, settings) ==
  partial_apply(settings,
    zero_rate(IF Has(st.channels, ch)
              THEN zero_rate(channel_apply(st.channels[ch], BaseSound),
                             st.channels[ch].paused)
              ELSE BaseSound,
              settings.paused))

\* manager.play(sound) fails: nothing is created
play_failed(st, handle, sound) ==
  [st EXCEPT !.calls = Append(@, [op |-> "play", h |-> handle,
                                  v |-> sound.playback_rate, out |-> "err",
                                  was |-> "Queued", now |-> "Queued"])]

\* manager.play(sound) returns the handle of a playing sound
play_started(st, handle, sound) ==
  [st EXCEPT
     !.ai = Put(@, handle,
                [state |-> "Playing", volume |-> sound.volume,
                 playback_rate |-> sound.playback_rate,
                 panning |-> sound.panning, reverse |-> sound.reverse]),
     !.calls = Append(@, [op |-> "play", h |-> handle,
                          v |-> sound.playback_rate, out |-> "ok",
                          was |-> "Queued", now |-> "Playing"]),
     !.started = Put(@, handle, sound),
     !.plays[handle] = @ + 1]

\* sound_handle.pause(..) then sound_handle.set_playback_rate(rate, ..)
pause_new(st, cond, handle, rate, resp) ==
  IF cond
  THEN call(call(st, "pause", handle, None, resp), "set_playback_rate", handle, rate, resp)
  ELSE st

\* a registration that inserts the handle at the head of the list
register_at_head(st, ch, handle) ==
  [st EXCEPT !.instances =
     IF Has(@, ch) THEN [@ EXCEPT ![ch] = <<handle>> \o @]
     ELSE Put(@, ch, <<handle>>)]

\* a registration that pushes the handle twice
register_twice(st, ch, handle) ==
  [st EXCEPT !.instances =
     IF Has(@, ch) THEN [@ EXCEPT ![ch] = Append(Append(@, handle), handle)]
     ELSE Put(@, ch, <<handle, handle>>)]

\* audio_instances.insert(..) and the push onto the channel's instance list
register(st, ch, handle) ==
  [st EXCEPT !.instances =
     IF Has(@, ch) THEN [@ EXCEPT ![ch] = Append(@, handle)]
     ELSE Put(@, ch, <<handle>>)]

\* the playback rate restored after the pause of a paused channel
channel_rate(st, ch, settings) ==
  IF settings.playback_rate # None THEN settings.playback_rate
  ELSE st.channels[ch].playback_rate

\* the playback rate restored after the pause of a request that starts paused
request_rate(settings) ==
  IF settings.playback_rate # None THEN settings.playback_rate ELSE 100

\* a play that asks for a retry when manager.play fails
play_retrying(st, ch, settings, handle, resp, perr) ==
  IF handle \in perr
  THEN [st |-> play_failed(st, handle, sound_to_play(st, ch, settings)),
        result |-> "Retry"]
  ELSE [st |-> register(
                 pause_new(
                   pause_new(play_started(st, handle, sound_to_play(st, ch, settings)),
                             Has(st.channels, ch) /\ st.channels[ch].paused,
                             handle,
                             IF Has(st.channels, ch) THEN channel_rate(st, ch, settings)
                             ELSE None,
                             resp),
                   settings.paused, handle, request_rate(settings), resp),
                 ch, handle),
        result |-> "Ok"]

\* AudioOutput::play; perr holds the handles whose manager.play call fails
play(st, ch, settings, handle, resp, perr) ==
  IF handle \in perr
  THEN [st |-> play_failed(st, handle, sound_to_play(st, ch, settings)),
        result |-> "Ok"]
  ELSE [st |-> register(
                 pause_new(
                   pause_new(play_started(st, handle, sound_to_play(st, ch, settings)),
                             Has(st.channels, ch) /\ st.channels[ch].paused,
                             handle,
                             IF Has(st.channels, ch) THEN channel_rate(st, ch, settings)
                             ELSE None,
                             resp),
                   settings.paused, handle, request_rate(settings), resp),
                 ch, handle),
        result |-> "Ok"]

\* a dispatch that gives up on a Play whose source is not loaded
run_audio_command_dropping(st, cmd, ch, resp, perr) ==
  CASE cmd.kind = "Play" ->
         IF cmd.source \in st.sources
         THEN play(st, ch, cmd.settings, cmd.handle, resp, perr)
         ELSE [st |-> st, result |-> "Ok"]
    [] cmd.kind = "Stop" -> stop(st, ch, resp)
    [] cmd.kind = "Pause" -> [st |-> pause(st, ch, resp), result |-> "Ok"]
    [] cmd.kind = "Resume" -> [st |-> resume(st, ch, resp), result |-> "Ok"]
    [] cmd.kind = "SetVolume" ->
         [st |-> set_volume(st, ch, cmd.value, resp), result |-> "Ok"]
    [] cmd.kind = "SetPanning" ->
         [st |-> set_panning(st, ch, cmd.value, resp), result |-> "Ok"]
    [] cmd.kind = "SetPlaybackRate" ->
         [st |-> set_playback_rate(st, ch, cmd.value, resp), result |-> "Ok"]

\* AudioOutput::run_audio_command
run_audio_command(st, cmd, ch, resp, perr) ==
  CASE cmd.kind = "Play" ->
         IF cmd.source \in st.sources
         THEN play(st, ch, cmd.settings, cmd.handle, resp, perr)
         ELSE [st |-> st, result |-> "Retry"]
    [] cmd.kind = "Stop" -> stop(st, ch, resp)
    [] cmd.kind = "Pause" -> [st |-> pause(st, ch, resp), result |-> "Ok"]
    [] cmd.kind = "Resume" -> [st |-> resume(st, ch, resp), result |-> "Ok"]
    [] cmd.kind = "SetVolume" ->
         [st |-> set_volume(st, ch, cmd.value, resp), result |-> "Ok"]
    [] cmd.kind = "SetPanning" ->
         [st |-> set_panning(st, ch, cmd.value, resp), result |-> "Ok"]
    [] cmd.kind = "SetPlaybackRate" ->
         [st |-> set_playback_rate(st, ch, cmd.value, resp), result |-> "Ok"]

\* a loop body that forgets the commands_to_retry.clear() of a Stop
retry_step_without_clear(d, audio_command, r) ==
  [st |-> r.st,
   commands |-> without_back(d.commands),
   commands_to_retry |->
     IF r.result = "Retry" THEN Append(d.commands_to_retry, audio_command)
     ELSE d.commands_to_retry,
   batch |-> Append(d.batch, audio_command),
   res |-> Append(d.res, r.result)]

\* a loop body that pushes the Retry first and lets a Stop clear afterwards
retry_step_clearing_last(d, audio_command, r) ==
  [st |-> r.st,
   commands |-> without_back(d.commands),
   commands_to_retry |->
     IF audio_command.kind = "Stop" THEN <<>>
     ELSE IF r.result = "Retry" THEN Append(d.commands_to_retry, audio_command)
     ELSE d.commands_to_retry,
   batch |-> Append(d.batch, audio_command),
   res |-> Append(d.res, r.result)]

\* the body of the loop of AudioOutput::play_channel after run_audio_command
\* returned r: a Stop clears commands_to_retry, a Retry is pushed onto it.
\* d holds the dispatcher state st, the locked deque commands,
\* commands_to_retry, and the history of the batch
retry_step(d, audio_command, r) ==
  [st |-> r.st,
   commands |-> without_back(d.commands),
   commands_to_retry |->
     IF r.result = "Retry"
     THEN Append(IF audio_command.kind = "Stop" THEN <<>> ELSE d.commands_to_retry,
                 audio_command)
     ELSE IF audio_command.kind = "Stop" THEN <<>> ELSE d.commands_to_retry,
   batch |-> Append(d.batch, audio_command),
   res |-> Append(d.res, r.result)]

\* one iteration of the loop of AudioOutput::play_channel
play_channel_step(d, ch, resp, perr) ==
  The({The({retry_step(x, back(x.commands), r) :
              r \in {run_audio_command(x.st, back(x.commands), ch, resp, perr)}}) :
         x \in {d}})

\* a requeue that walks commands_to_retry from its end
requeue_from_end(d) ==
  LET R[i \in 0..Len(d.commands_to_retry)] ==
        IF i = 0 THEN d.commands
        ELSE push_front(R[i - 1],
                        d.commands_to_retry[Len(d.commands_to_retry) + 1 - i])
  IN [d EXCEPT !.commands = R[Len(d.commands_to_retry)]]

\* a requeue that pushes every command to retry twice
requeue_doubling(d) ==
  LET R[i \in 0..Len(d.commands_to_retry)] ==
        IF i = 0 THEN d.commands
        ELSE push_front(push_front(R[i - 1], d.commands_to_retry[i]),
                        d.commands_to_retry[i])
  IN [d EXCEPT !.commands = R[Len(d.commands_to_retry)]]

\* commands_to_retry.drain(..).for_each(|command| commands.push_front(command))
requeue(d) ==
  LET R[i \in 0..Len(d.commands_to_retry)] ==
        IF i = 0 THEN d.commands ELSE push_front(R[i - 1], d.commands_to_retry[i])
  IN [d EXCEPT !.commands = R[Len(d.commands_to_retry)]]

\* the state of a drain before its loop
drain_start(st, commands) ==
  [st |-> st, commands |-> commands, commands_to_retry |-> <<>>,
   batch |-> <<>>, res |-> <<>>]

\* AudioOutput::play_channel with the manager present
play_channel(st, commands, ch, resp, perr) ==
  LET D[i \in 0..Len(commands)] ==
        IF i = 0 THEN drain_start(st, commands)
        ELSE play_channel_step(D[i - 1], ch, resp, perr)
  IN The({requeue(d) : d \in {D[Len(commands)]}})

\* an inner loop body that pushes a Retry to the end the loop pops from
dynamic_step_repopping(d, audio_command, r) ==
  [st |-> r.st,
   commands |-> IF r.result = "Retry"
                THEN Append(without_back(d.commands), audio_command)
                ELSE without_back(d.commands),
   commands_to_retry |-> <<>>,
   batch |-> Append(d.batch, audio_command),
   res |-> Append(d.res, r.result)]

\* an inner loop body that does not push a Retry back
dynamic_step_dropping(d, audio_command, r) ==
  [st |-> r.st,
   commands |-> without_back(d.commands),
   commands_to_retry |-> <<>>,
   batch |-> Append(d.batch, audio_command),
   res |-> Append(d.res, r.result)]

\* the body of the inner loop of AudioOutput::play_dynamic_channels after
\* run_audio_command returned r: a Retry is pushed to the front at once
dynamic_step(d, audio_command, r) ==
  [st |-> r.st,
   commands |-> IF r.result = "Retry"
                THEN push_front(without_back(d.commands), audio_command)
                ELSE without_back(d.commands),
   commands_to_retry |-> <<>>,
   batch |-> Append(d.batch, audio_command),
   res |-> Append(d.res, r.result)]

\* one iteration of the inner loop of AudioOutput::play_dynamic_channels
play_dynamic_step(d, ch, resp, perr) ==
  The({The({dynamic_step(x, back(x.commands), r) :
              r \in {run_audio_command(x.st, back(x.commands), ch, resp, perr)}}) :
         x \in {d}})

\* one channel of AudioOutput::play_dynamic_channels with the manager present
play_dynamic_channel(st, commands, ch, resp, perr) ==
  LET D[i \in 0..Len(commands)] ==
        IF i = 0 THEN drain_start(st, commands)
        ELSE play_dynamic_step(D[i - 1], ch, resp, perr)
  IN D[Len(commands)]

\* a drained channel joins the result of AudioOutput::play_dynamic_channels
drained(a, key, d) == [st |-> d.st, drains |-> Put(a.drains, key, d)]

\* AudioOutput::play_dynamic_channels with the manager present: the channels
\* are drained one after the other, each under its own lock
play_dynamic_channels(st, keys, qs, resp, perr) ==
  LET A[i \in 0..Cardinality(keys)] ==
        IF i = 0 THEN [st |-> st, drains |-> EmptyMap]
        ELSE The({The({drained(a, KeyOrder(keys)[i], d) :
                         d \in {play_dynamic_channel(a.st, qs[KeyOrder(keys)[i]],
                                                    KeyOrder(keys)[i], resp, perr)}}) :
                    a \in {A[i - 1]}})
  IN A[Cardinality(keys)]

(* ------------------------------ actions ------------------------------- *)
\* an append at the end the dispatcher pops from
que_at_back(commands, command) == Append(commands, command)

\* AudioCommandQue::que: producers push to the front of the channel's deque
que(commands, command) == push_front(commands, command)

NoDrain == [c \in {} |-> 0]

\* the locals of play_channel while no drain is running
IdleDrain ==
  drain_start([instances |-> EmptyMap, channels |-> EmptyMap, ai |-> EmptyMap,
               sources |-> {}, calls |-> <<>>, started |-> EmptyMap,
               plays |-> [h \in Handles |-> 0]], <<>>)

Init ==
  /\ manager \in BOOLEAN
  /\ queues = [ch \in Channels |-> <<>>]
  /\ instances = EmptyMap
  /\ channels = EmptyMap
  /\ audio_instances = EmptyMap
  /\ audio_sources = {}
  /\ nextId = 0
  /\ last = NoDrain
  /\ plays = [h \in Handles |-> 0]
  /\ skipped = {}
  /\ queued_audio = EmptyMap
  /\ entity_audio = EmptyMap
  /\ crashed = FALSE
  /\ lock = "free"
  /\ pc = "idle"
  /\ cur = IdleDrain
  /\ waiting = EmptyMap
  /\ hist = [ok |-> {}, discarded |-> {}, owner |-> EmptyMap]
  /\ builders = EmptyMap
  /\ dropped = EmptyMap

\* channel.play(source) with the builder dropped at the end of the statement
EnqueuePlay(ch, source, settings, max) ==
  /\ nextId < max
  /\ nextId' = nextId + 1
  /\ queues' = [queues EXCEPT ![ch] = que(@, PlayCmd(nextId + 1, ch, source, settings))]
  /\ last' = NoDrain
  /\ skipped' = {}
  /\ UNCHANGED aside
  /\ UNCHANGED <<manager, instances, channels, audio_instances, audio_sources, plays>>

\* channel.stop() / pause() / resume() / set_volume(v) / set_panning(p) /
\* set_playback_rate(r) with the builder dropped at the end of the statement
EnqueueTween(ch, kind, value, max) ==
  /\ nextId < max
  /\ nextId' = nextId + 1
  /\ queues' = [queues EXCEPT ![ch] = que(@, TweenCmd(nextId + 1, kind, value))]
  /\ last' = NoDrain
  /\ skipped' = {}
  /\ UNCHANGED aside
  /\ UNCHANGED <<manager, instances, channels, audio_instances, audio_sources, plays>>

\* the asset server finishes loading a source
LoadAsset(source) ==
  /\ source \notin audio_sources
  /\ audio_sources' = audio_sources \cup {source}
  /\ last' = NoDrain
  /\ skipped' = {}
  /\ UNCHANGED aside
  /\ UNCHANGED <<manager, queues, instances, channels, audio_instances, nextId, plays>>

\* the dispatcher's fields as the record the operators thread
Dispatcher ==
  [instances |-> instances, channels |-> channels, ai |-> audio_instances,
   sources |-> audio_sources, calls |-> <<>>, started |-> EmptyMap, plays |-> plays]

\* the handles a drain of commands can call the backend for
PlayHandles(commands) ==
  {commands[i].handle : i \in {j \in 1..Len(commands) :
      commands[j].kind = "Play" /\ commands[j].source \in audio_sources}}

CalledHandles(ch, commands) ==
  IF \/ \E i \in 1..Len(commands) :
          commands[i].kind # "Play" \/ commands[i].settings.paused
     \/ (Has(channels, ch) /\ channels[ch].paused /\ PlayHandles(commands) # {})
  THEN Range(handles_of(Dispatcher, ch)) \cup PlayHandles(commands)
  ELSE {}

\* the backend's answers during one dispatch: an outcome per called handle
RespChoices(called) ==
  {[h \in Handles |-> IF h \in called THEN f[h] ELSE "ok"] : f \in [called -> Outcomes]}

\* what a drain leaves in the history: the commands in the order popped, the
\* result of each, the backend calls made, the sounds handed to manager.play,
\* and the settings the drain started from
DrainRecord(d, ch) ==
  [batch |-> d.batch, res |-> d.res,
   calls |-> SelectSeq(d.st.calls, LAMBDA e : e.h[1] = ch),
   stray |-> SelectSeq(d.st.calls, LAMBDA e : e.h[1] # ch),
   started |-> [h \in {x \in DOMAIN d.st.started : x[1] = ch} |-> d.st.started[h]],
   pre |-> IF Has(channels, ch) THEN channels[ch] ELSE DefaultChannelSettings,
   had |-> Has(channels, ch)]

\* the effect of a drain d of a static-typed channel on the state
TypedDispatched(ch, d) ==
  /\ queues' = [queues EXCEPT ![ch] = d.commands]
  /\ instances' = d.st.instances
  /\ channels' = d.st.channels
  /\ audio_instances' = d.st.ai
  /\ plays' = d.st.plays
  /\ last' = [c \in {ch} |-> DrainRecord(d, ch)]
  /\ skipped' = {}
  /\ UNCHANGED aside
  /\ UNCHANGED <<manager, audio_sources, nextId>>

\* a return at `if self.manager.is_none()` that first empties the deque
early_return_draining(st, commands) == drain_start(st, <<>>)

\* the return at `if self.manager.is_none()`: nothing was locked or popped
early_return(st, commands) == drain_start(st, commands)

\* the effect on the state of the drains d of the channels keys, all of
\* which returned at once
Skipped(keys, d) ==
  /\ queues' = [c \in Channels |-> IF c \in keys THEN d[c].commands ELSE queues[c]]
  /\ \A c \in keys :
       /\ instances' = d[c].st.instances
       /\ channels' = d[c].st.channels
       /\ audio_instances' = d[c].st.ai
       /\ plays' = d[c].st.plays
  /\ last' = NoDrain
  /\ skipped' = keys
  /\ UNCHANGED <<manager, audio_sources, nextId>>
  /\ UNCHANGED aside

\* the system play_audio_channel::<T>: AudioOutput::play_channel
PlayChannel(ch) ==
  IF ~manager THEN Skipped({ch}, [c \in {ch} |-> early_return(Dispatcher, queues[c])])
  ELSE
    \E resp \in RespChoices(CalledHandles(ch, queues[ch])),
       perr \in SUBSET PlayHandles(queues[ch]) :
      \E d \in {play_channel(Dispatcher, queues[ch], ch, resp, perr)} :
        TypedDispatched(ch, d)

\* the effect of the drains a of the dynamic channels on the state
DynamicDispatched(a) ==
  /\ queues' = [c \in Channels |->
                  IF c \in DynamicKeys THEN a.drains[c].commands ELSE queues[c]]
  /\ instances' = a.st.instances
  /\ channels' = a.st.channels
  /\ audio_instances' = a.st.ai
  /\ plays' = a.st.plays
  /\ last' = [c \in DynamicKeys |-> DrainRecord(a.drains[c], c)]
  /\ skipped' = {}
  /\ UNCHANGED aside
  /\ UNCHANGED <<manager, audio_sources, nextId>>

\* the system play_dynamic_channels: AudioOutput::play_dynamic_channels
PlayDynamicChannels ==
  IF ~manager
  THEN Skipped(DynamicKeys, [c \in DynamicKeys |-> early_return(Dispatcher, queues[c])])
  ELSE
    \E resp \in RespChoices(UNION {CalledHandles(k, queues[k]) : k \in DynamicKeys}),
       perr \in SUBSET (UNION {PlayHandles(queues[k]) : k \in DynamicKeys}) :
      \E a \in {play_dynamic_channels(Dispatcher, DynamicKeys, queues, resp, perr)} :
        DynamicDispatched(a)

\* the audio thread: a fade-out ends, or a sound reaches its end
BackendAdvance(h) ==
  /\ Has(audio_instances, h)
  /\ audio_instances[h].state \in {"Pausing", "Stopping", "Playing"}
  /\ audio_instances' = [audio_instances EXCEPT ![h].state =
                           IF @ = "Pausing" THEN "Paused" ELSE "Stopped"]
  /\ last' = NoDrain
  /\ skipped' = {}
  /\ UNCHANGED aside
  /\ UNCHANGED <<manager, queues, instances, channels, audio_sources, nextId, plays>>

\* a sweep that keeps only what is audible
cleanup_all_but_playing(handles, ai) ==
  SelectSeq(handles, LAMBDA h : IF Has(ai, h) THEN ai[h].state = "Playing" ELSE FALSE)

\* AudioOutput::cleanup_stopped_instances, for the handles of one channel
cleanup_stopped_instances(handles, ai) ==
  SelectSeq(handles, LAMBDA h : IF Has(ai, h) THEN ai[h].state # "Stopped" ELSE FALSE)

\* the system cleanup_stopped_instances
CleanupStoppedInstances ==
  /\ instances' = [ch \in DOMAIN instances |->
                     cleanup_stopped_instances(instances[ch], audio_instances)]
  /\ last' = NoDrain
  /\ skipped' = {}
  /\ UNCHANGED aside
  /\ UNCHANGED <<manager, queues, channels, audio_instances, audio_sources, nextId, plays>>

TweenArgs(kind) ==
  CASE kind = "SetVolume" -> VolumeArgs
    [] kind = "SetPanning" -> PanningArgs
    [] kind = "SetPlaybackRate" -> RateArgs
    [] OTHER -> {None}

(* ------------------ entities with an audio source ---------------------- *)
\* PlaybackSettings::default()
DefaultPlayback ==
  [paused |-> FALSE, reverse |-> FALSE, playback_rate |-> 100, volume |-> 100,
   panning |-> 50]

\* PlaybackSettings::apply_channel_settings
apply_channel_settings(settings, channel_state) ==
  [settings EXCEPT
     !.paused = @ \/ channel_state.paused,
     !.volume = (@ * channel_state.volume) \div 100,
     !.playback_rate = (@ * channel_state.playback_rate) \div 100]

\* PlaybackSettings::apply
playback_apply(settings, sound) ==
  [sound EXCEPT
     !.volume = settings.volume,
     !.playback_rate = settings.playback_rate,
     !.reverse = IF settings.reverse THEN TRUE ELSE @]

\* the part of play_new after the sound was created: pause and
\* set_playback_rate when the settings are paused, then the AudioInstance
new_instance(settings, sound, pout) ==
  IF settings.paused /\ pout = "ok"
  THEN Effect(Effect([sound EXCEPT !.state = "Playing"], "pause", None),
              "set_playback_rate", settings.playback_rate)
  ELSE [sound EXCEPT !.state = "Playing"]

\* play_new from the point where the channel settings have been applied
play_new_with(mgr, settings, out, pout) ==
  IF ~mgr THEN [outcome |-> "panic"]
  ELSE IF out # "ok" THEN [outcome |-> "failed"]
  ELSE [outcome |-> "started",
        instance |-> new_instance(settings,
           playback_apply(settings, zero_rate(BaseSound, settings.paused))
             @@ [state |-> "Playing"], pout)]

\* AudioOutput::play_new: `self.manager.as_mut().unwrap()` panics when the
\* manager is None
play_new(mgr, sources, source, settings, out, pout) ==
  IF source \notin sources THEN [outcome |-> "unloaded"]
  ELSE play_new_with(mgr, apply_channel_settings(settings, DefaultChannelSettings),
                     out, pout)

\* the entities of the world
Entities == 1..MaxEntities

\* commands.spawn(AudioBundle { source, settings })
SpawnAudio(e, source, settings) ==
  /\ ~crashed
  /\ e \notin (DOMAIN queued_audio) \cup (DOMAIN entity_audio)
  /\ \A x \in 1..(e - 1) : x \in (DOMAIN queued_audio) \cup (DOMAIN entity_audio)
  /\ queued_audio' = Put(queued_audio, e, [source |-> source, settings |-> settings])
  /\ last' = NoDrain
  /\ skipped' = {}
  /\ UNCHANGED <<entity_audio, crashed>>
  /\ UNCHANGED lock_vars
  /\ UNCHANGED build_vars
  /\ UNCHANGED <<manager, queues, instances, channels, audio_instances, audio_sources,
                 nextId, plays>>

\* the effect of start_audio_playback when r[e] is what play_new did for the
\* queued entity e: a panic ends the system before its deferred inserts are
\* applied
AudioStarted(r) ==
  /\ crashed' = \E e \in DOMAIN r : r[e].outcome = "panic"
  /\ IF \E e \in DOMAIN r : r[e].outcome = "panic"
     THEN UNCHANGED <<queued_audio, entity_audio>>
     ELSE /\ queued_audio' =
               [e \in {x \in DOMAIN r : r[x].outcome # "started"} |-> queued_audio[e]]
          /\ entity_audio' =
               [e \in (DOMAIN entity_audio) \cup {x \in DOMAIN r : r[x].outcome = "started"} |->
                  IF e \in DOMAIN entity_audio THEN entity_audio[e] ELSE r[e].instance]
  /\ last' = NoDrain
  /\ skipped' = {}
  /\ UNCHANGED lock_vars
  /\ UNCHANGED build_vars
  /\ UNCHANGED <<manager, queues, instances, channels, audio_instances, audio_sources,
                 nextId, plays>>

\* the system start_audio_playback
StartAudioPlayback ==
  /\ ~crashed
  /\ queued_audio # EmptyMap
  /\ \E out \in [DOMAIN queued_audio -> {"ok", "err"}],
        pout \in [DOMAIN queued_audio -> {"ok", "err"}] :
       \E r \in {[e \in DOMAIN queued_audio |->
                   play_new(manager, audio_sources, queued_audio[e].source,
                            queued_audio[e].settings, out[e], pout[e])]} :
         AudioStarted(r)

(* --------- the lock of a channel's deque, one backend call a step ------- *)
\* the application code that enqueues concurrently
Producers == {"p1", "p2"}

\* every step of this part leaves these alone
LockFrame ==
  /\ last' = NoDrain
  /\ skipped' = {}
  /\ UNCHANGED entity_vars
  /\ UNCHANGED build_vars
  /\ UNCHANGED <<manager, audio_sources>>

\* AudioCommandQue::que called by producer p: the append happens under the
\* deque's lock, so p blocks while the dispatcher holds it
Produce(p, ch, command) ==
  /\ nextId < MaxLockCmds
  /\ ~Has(waiting, p)
  /\ nextId' = nextId + 1
  /\ hist' = [hist EXCEPT !.owner = Put(@, command.id, p)]
  /\ IF lock = ch
     THEN /\ waiting' = Put(waiting, p, command)
          /\ UNCHANGED queues
     ELSE /\ queues' = [queues EXCEPT ![ch] = que(@, command)]
          /\ UNCHANGED waiting
  /\ LockFrame
  /\ UNCHANGED <<lock, pc, cur, instances, channels, audio_instances, plays>>

\* a blocked que() gets the lock and appends
Enter(p, ch) ==
  /\ Has(waiting, p)
  /\ lock = "free"
  /\ queues' = [queues EXCEPT ![ch] = que(@, waiting[p])]
  /\ waiting' = [x \in (DOMAIN waiting) \ {p} |-> waiting[x]]
  /\ LockFrame
  /\ UNCHANGED <<lock, pc, cur, hist, nextId, instances, channels, audio_instances, plays>>

\* play_channel: `let mut commands = channel.commands.write(); let len = ..`
DrainLock(ch) ==
  /\ manager
  /\ lock = "free" /\ pc = "idle"
  /\ lock' = ch
  /\ pc' = "loop"
  /\ cur' = drain_start(Dispatcher, queues[ch])
  /\ LockFrame
  /\ UNCHANGED <<queues, waiting, hist, nextId, instances, channels, audio_instances, plays>>

\* what one iteration of the loop decides about the commands: d is the
\* drain before it and d2 the drain after it. The popped command counts as
\* executed when its result is Ok; what a Stop clears is discarded
fate(h, d, d2) ==
  [h EXCEPT
     !.ok = IF d2.res[Len(d2.res)] = "Ok" THEN @ \cup {d2.batch[Len(d2.batch)].id} ELSE @,
     !.discarded = @ \cup ({d.commands_to_retry[i].id : i \in 1..Len(d.commands_to_retry)}
                           \ {d2.commands_to_retry[i].id : i \in 1..Len(d2.commands_to_retry)})]

\* the fields of the dispatcher after the iteration that made the drain d2
Applied(ch, d2) ==
  /\ instances' = d2.st.instances
  /\ channels' = d2.st.channels
  /\ audio_instances' = d2.st.ai
  /\ plays' = d2.st.plays

\* one iteration of `while i < len`: pop_back, then run_audio_command. When
\* the command calls the backend, the iteration is under way until DrainReturn
DrainCall(ch) ==
  /\ lock = ch /\ pc = "loop"
  /\ cur.commands # <<>>
  /\ \E resp \in RespChoices(CalledHandles(ch, <<back(cur.commands)>>)),
        perr \in SUBSET PlayHandles(<<back(cur.commands)>>) :
       \E d2 \in {play_channel_step(cur, ch, resp, perr)} :
         /\ cur' = d2
         /\ queues' = [queues EXCEPT ![ch] = d2.commands]
         /\ hist' = fate(hist, cur, d2)
         /\ IF Len(d2.st.calls) > Len(cur.st.calls)
            THEN /\ pc' = "calling"
                 /\ UNCHANGED <<instances, channels, audio_instances, plays>>
            ELSE /\ pc' = "loop"
                 /\ Applied(ch, d2)
  /\ LockFrame
  /\ UNCHANGED <<lock, waiting, nextId>>

\* the backend calls of the iteration return
DrainReturn(ch) ==
  /\ lock = ch /\ pc = "calling"
  /\ pc' = "loop"
  /\ Applied(ch, cur)
  /\ LockFrame
  /\ UNCHANGED <<lock, cur, queues, waiting, hist, nextId>>

\* the end of play_channel: the requeue, then the guard goes out of scope
DrainUnlock(ch) ==
  /\ lock = ch /\ pc = "loop"
  /\ cur.commands = <<>>
  /\ queues' = [queues EXCEPT ![ch] = requeue(cur).commands]
  /\ lock' = "free"
  /\ pc' = "idle"
  /\ cur' = IdleDrain
  /\ LockFrame
  /\ UNCHANGED <<waiting, hist, nextId, instances, channels, audio_instances, plays>>

NextLock ==
  \/ \E p \in Producers, ch \in TypedChannels :
       Produce(p, ch, PlayCmd(nextId + 1, ch, "s1", DefaultPartial))
  \/ \E p \in Producers, ch \in TypedChannels :
       Produce(p, ch, TweenCmd(nextId + 1, "Stop", None))
  \/ \E p \in Producers, ch \in TypedChannels : Enter(p, ch)
  \/ \E ch \in TypedChannels : DrainLock(ch)
  \/ \E ch \in TypedChannels : DrainCall(ch)
  \/ \E ch \in TypedChannels : DrainReturn(ch)
  \/ \E ch \in TypedChannels : DrainUnlock(ch)
  \/ pc = "idle" /\ LoadAsset("s1")

SpecLock == Init /\ [][NextLock]_vars

(* ------------------------- command builders ---------------------------- *)
\* Option<AudioTween> values a fade setter is called with
Tweens == {1, 2}

\* the volumes with_volume is called with
BuilderVolumes == {50, 70}

\* history of a builder: the last argument of each setter, None when the
\* setter was not called; for reverse the number of calls so far
NothingAsked == [paused |-> None, with_volume |-> None, fade |-> None, reverse |-> 0]

\* PlayAudioCommand::new: a fresh uuid names the instance
PlayAudioCommand_new(id, ch, source) ==
  [type |-> "play", ch |-> ch, instance_handle |-> <<ch, id>>, source |-> source,
   settings |-> DefaultPartial, kind |-> "Play", value |-> None, tween |-> None,
   handed |-> {}, asked |-> NothingAsked]

\* TweenCommand::new
TweenCommand_new(id, ch, kind, value) ==
  [type |-> "tween", ch |-> ch, instance_handle |-> NoHandle, source |-> NoSource,
   settings |-> DefaultPartial, kind |-> kind, value |-> value, tween |-> None,
   handed |-> {}, asked |-> NothingAsked]

\* PlayAudioCommand::paused, with_volume; TweenCommand::fade_in / fade_out
paused(b) == [b EXCEPT !.settings.paused = TRUE]

with_volume(b, volume) == [b EXCEPT !.settings.volume = volume]

fade(b, tween) == [b EXCEPT !.tween = tween]

\* a reverse() that sets the flag
reverse_setting(b) == [b EXCEPT !.settings.reverse = 1]

\* PlayAudioCommand::reverse: Some(!self.settings.reverse.unwrap_or(false))
reverse(b) == [b EXCEPT !.settings.reverse = 1 - (IF @ = None THEN 0 ELSE @)]

\* the setter op called with v on the builder b; asked remembers the last
\* value each setter was called with
set(b, op, v) ==
  [(CASE op = "paused" -> paused(b)
      [] op = "with_volume" -> with_volume(b, v)
      [] op = "fade" -> fade(b, v)
      [] op = "reverse" -> reverse(b))
   EXCEPT !.asked[op] = v]

\* a to_command that leaves the tween behind
to_command_without_tween(id, b) ==
  Cmd(id, b.kind, b.value, NoSource, NoHandle, DefaultPartial)

\* TweenCommandKind::to_command(self.tween.take())
to_command(id, b) ==
  [Cmd(id, b.kind, b.value, NoSource, NoHandle, DefaultPartial) EXCEPT !.tween = b.tween]

\* AudioCommand::Play(self.into()): PlayAudioSettings::from
play_command(id, b) == Cmd(id, "Play", None, b.source, b.instance_handle, b.settings)

\* channel.play(source) / channel.stop() / ... : a builder comes into scope
NewBuilder(b) ==
  /\ nextId < MaxBuilders
  /\ nextId' = nextId + 1
  /\ builders' = Put(builders, nextId + 1, b)
  /\ last' = NoDrain
  /\ skipped' = {}
  /\ UNCHANGED <<entity_vars, lock_vars, dropped>>
  /\ UNCHANGED <<manager, queues, instances, channels, audio_instances, audio_sources, plays>>

\* a setter is called on the builder id
CallSetter(id, op, v) ==
  /\ Has(builders, id)
  /\ builders[id].asked[op] # v
  /\ (op = "fade") = (builders[id].type = "tween")
  /\ builders' = [builders EXCEPT ![id] = set(@, op, v)]
  /\ last' = NoDrain
  /\ skipped' = {}
  /\ UNCHANGED <<entity_vars, lock_vars, dropped>>
  /\ UNCHANGED <<manager, queues, instances, channels, audio_instances, audio_sources,
                 nextId, plays>>

\* PlayAudioCommand::handle: self.instance_handle.clone()
CallHandle(id) ==
  /\ Has(builders, id)
  /\ builders[id].type = "play"
  /\ builders[id].handed = {}
  /\ builders' = [builders EXCEPT ![id].handed = @ \cup {builders[id].instance_handle}]
  /\ last' = NoDrain
  /\ skipped' = {}
  /\ UNCHANGED <<entity_vars, lock_vars, dropped>>
  /\ UNCHANGED <<manager, queues, instances, channels, audio_instances, audio_sources,
                 nextId, plays>>

\* Drop for PlayAudioCommand / Drop for TweenCommand: the builder goes out of
\* scope and its command is enqueued
DropBuilder(id) ==
  /\ Has(builders, id)
  /\ queues' = [queues EXCEPT ![builders[id].ch] =
                  que(@, IF builders[id].type = "play"
                         THEN play_command(id, builders[id])
                         ELSE to_command(id, builders[id]))]
  /\ builders' = [x \in (DOMAIN builders) \ {id} |-> builders[x]]
  /\ dropped' = Put(dropped, id, builders[id])
  /\ last' = NoDrain
  /\ skipped' = {}
  /\ UNCHANGED <<entity_vars, lock_vars>>
  /\ UNCHANGED <<manager, instances, channels, audio_instances, audio_sources, nextId, plays>>

NextBuild ==
  \/ \E ch \in Channels : NewBuilder(PlayAudioCommand_new(nextId + 1, ch, "s1"))
  \/ \E ch \in TypedChannels, kind \in {"Stop", "SetVolume"} :
       \E value \in TweenArgs(kind) :
         NewBuilder(TweenCommand_new(nextId + 1, ch, kind, value))
  \/ \E id \in 1..MaxBuilders : CallSetter(id, "paused", 1)
  \/ \E id \in 1..MaxBuilders, v \in BuilderVolumes : CallSetter(id, "with_volume", v)
  \/ \E id \in 1..MaxBuilders, v \in Tweens : CallSetter(id, "fade", v)
  \/ \E id \in 1..MaxBuilders : CallHandle(id)
  \/ \E id \in 1..MaxBuilders : DropBuilder(id)

SpecBuild == Init /\ [][NextBuild]_vars

(* ------ builders whose reverse() is called some number of times --------- *)
NextReverse ==
  \/ \E ch \in TypedChannels : NewBuilder(PlayAudioCommand_new(nextId + 1, ch, "s1"))
  \/ \E id \in 1..MaxBuilders, n \in 1..MaxReverse :
       /\ Has(builders, id)
       /\ n = builders[id].asked.reverse + 1
       /\ CallSetter(id, "reverse", n)
  \/ \E id \in 1..MaxBuilders : DropBuilder(id)
  \/ LoadAsset("s1")
  \/ \E ch \in TypedChannels : PlayChannel(ch)

SpecReverse == Init /\ [][NextReverse]_vars

(* -------- the retry core: plays and stops on both kinds of channel ------ *)
Next ==
  \/ \E ch \in Channels, source \in Sources :
       EnqueuePlay(ch, source, DefaultPartial, MaxCmds)
  \/ \E ch \in Channels : EnqueueTween(ch, "Stop", None, MaxCmds)
  \/ \E source \in Sources : LoadAsset(source)
  \/ \E ch \in TypedChannels : PlayChannel(ch)
  \/ PlayDynamicChannels
  \/ \E h \in Handles : BackendAdvance(h)
  \/ CleanupStoppedInstances

Spec == Init /\ [][Next]_vars

(* ------ one static-typed channel: batches of plays and stops ----------- *)
NextBatch ==
  \/ \E ch \in TypedChannels : EnqueuePlay(ch, "s1", DefaultPartial, MaxBatch)
  \/ \E ch \in TypedChannels : EnqueueTween(ch, "Stop", None, MaxBatch)
  \/ LoadAsset("s1")
  \/ \E ch \in TypedChannels : PlayChannel(ch)
  \/ \E h \in Handles : BackendAdvance(h)
  \/ CleanupStoppedInstances

SpecBatch == Init /\ [][NextBatch]_vars

(* ------ every kind of command, on both kinds of channel ----------------- *)
NextTween ==
  \/ \E ch \in Channels : EnqueuePlay(ch, "s1", DefaultPartial, MaxTweenCmds)
  \/ \E ch \in Channels, kind \in Kinds \ {"Play"} : \E value \in TweenArgs(kind) :
       EnqueueTween(ch, kind, value, MaxTweenCmds)
  \/ LoadAsset("s1")
  \/ \E ch \in TypedChannels : PlayChannel(ch)
  \/ PlayDynamicChannels
  \/ \E h \in Handles : BackendAdvance(h)
  \/ CleanupStoppedInstances

SpecTween == Init /\ [][NextTween]_vars

(* ------ every kind of command on one static-typed channel -------------- *)
NextOne ==
  \/ \E ch \in TypedChannels : EnqueuePlay(ch, "s1", DefaultPartial, MaxOne)
  \/ \E ch \in TypedChannels, kind \in Kinds \ {"Play"} : \E value \in TweenArgs(kind) :
       EnqueueTween(ch, kind, value, MaxOne)
  \/ LoadAsset("s1")
  \/ \E ch \in TypedChannels : PlayChannel(ch)
  \/ \E h \in Handles : BackendAdvance(h)
  \/ CleanupStoppedInstances

SpecOne == Init /\ [][NextOne]_vars

(* ------ plays with request settings on channels with settings ---------- *)
\* the arguments of with_playback_rate and with_volume of the plays
RequestRates == {150}

RequestVolumes == {80}

\* the settings a PlayAudioCommand has accumulated when it is dropped
PlaySettings ==
  {DefaultPartial, [DefaultPartial EXCEPT !.paused = TRUE]}
  \cup {[DefaultPartial EXCEPT !.playback_rate = r] : r \in RequestRates}

NextPlay ==
  \/ \E ch \in TypedChannels, settings \in PlaySettings :
       EnqueuePlay(ch, "s1", settings, MaxPlayCmds)
  \/ \E ch \in TypedChannels, kind \in {"Pause", "SetPlaybackRate"} :
       \E value \in TweenArgs(kind) : EnqueueTween(ch, kind, value, MaxPlayCmds)
  \/ LoadAsset("s1")
  \/ \E ch \in TypedChannels : PlayChannel(ch)

SpecPlay == Init /\ [][NextPlay]_vars

(* ------ volumes of plays, of their channel and of another channel ------- *)
VolumeSettings ==
  {DefaultPartial} \cup {[DefaultPartial EXCEPT !.volume = v] : v \in RequestVolumes}

NextVolume ==
  \/ \E ch \in TypedChannels, settings \in VolumeSettings :
       EnqueuePlay(ch, "s1", settings, MaxVolumeCmds)
  \/ \E ch \in Channels, value \in VolumeArgs :
       EnqueueTween(ch, "SetVolume", value, MaxVolumeCmds)
  \/ LoadAsset("s1")
  \/ \E ch \in TypedChannels : PlayChannel(ch)
  \/ PlayDynamicChannels

SpecVolume == Init /\ [][NextVolume]_vars

(* ------ the entity path next to the command path ------------------------ *)
NextEntity ==
  \/ \E e \in Entities, start_paused \in BOOLEAN :
       SpawnAudio(e, "s1", [DefaultPlayback EXCEPT !.paused = start_paused])
  \/ StartAudioPlayback
  \/ ~crashed /\ \E ch \in Channels : EnqueuePlay(ch, "s1", DefaultPartial, MaxEntityCmds)
  \/ ~crashed /\ \E ch \in Channels : EnqueueTween(ch, "Stop", None, MaxEntityCmds)
  \/ ~crashed /\ LoadAsset("s1")
  \/ ~crashed /\ \E ch \in TypedChannels : PlayChannel(ch)
  \/ ~crashed /\ PlayDynamicChannels
  \/ ~crashed /\ \E h \in Handles : BackendAdvance(h)
  \/ ~crashed /\ CleanupStoppedInstances

SpecEntity == Init /\ [][NextEntity]_vars

(* ------ the retry core with the dispatch systems scheduled every frame -- *)
\* play_audio_channel::<T> and play_dynamic_channels are systems of the
\* PostUpdate schedule: each runs once per frame for as long as the app runs
NextLive ==
  \/ \E ch \in Channels, source \in Sources :
       EnqueuePlay(ch, source, DefaultPartial, MaxLive)
  \/ \E ch \in Channels : EnqueueTween(ch, "Stop", None, MaxLive)
  \/ \E source \in Sources : LoadAsset(source)
  \/ \E ch \in TypedChannels : PlayChannel(ch)
  \/ PlayDynamicChannels
  \/ \E h \in Handles : BackendAdvance(h)
  \/ CleanupStoppedInstances

LiveSpec ==
  /\ Init /\ [][NextLive]_vars
  /\ WF_vars(\E ch \in TypedChannels : PlayChannel(ch))
  /\ WF_vars(PlayDynamicChannels)

(* ============================== claims ================================ *)
\* the position of the last Stop of a batch (0 when it has none)
LastStop(batch) ==
  LET S == {i \in 1..Len(batch) : batch[i].kind = "Stop"}
  IN IF S = {} THEN 0 ELSE CHOOSE i \in S : \A j \in S : j <= i

\* commands in the order their builders were dropped
IncreasingIds(batch) ==
  \A i, j \in 1..Len(batch) : i < j => batch[i].id < batch[j].id

\* a deque whose back holds the oldest command
OldestAtBack(q) ==
  \A i, j \in 1..Len(q) : i < j => q[i].id > q[j].id

\* every backend call of a drain was accepted
AllAccepted(rec) == \A k \in 1..Len(rec.calls) : rec.calls[k].out = "ok"

\* the results of a drain are all Ok
AllOk(rec) == \A i \in 1..Len(rec.res) : rec.res[i] = "Ok"

\* the kinds of the commands of a batch
KindsOf(batch) == [i \in 1..Len(batch) |-> batch[i].kind]

\* C1: after a drain of a static-typed channel, a command that returned Retry
\* is back in the queue exactly when no Stop was popped after it in that
\* batch, and the queue holds nothing but commands of that batch; so
\* [Play(A) unresolved, Stop, Play(B) unresolved] leaves exactly Play(B).
C1_StopDiscardsEarlierRetries ==
  \A ch \in TypedChannels : Has(last, ch) =>
    /\ \A i \in 1..Len(last[ch].batch) :
         last[ch].res[i] = "Retry" =>
           (last[ch].batch[i] \in Range(queues[ch])
              <=> i >= LastStop(last[ch].batch))
    /\ Range(queues[ch]) \subseteq Range(last[ch].batch)

C1_Witness ==
  \E ch \in TypedChannels :
    /\ Has(last, ch)
    /\ KindsOf(last[ch].batch) = <<"Play", "Stop", "Play">>
    /\ last[ch].res = <<"Retry", "Ok", "Retry">>
    /\ queues[ch] = <<last[ch].batch[3]>>

\* the commands of a drain that returned Retry and were not discarded by a
\* later Stop of a static-typed drain, in the order they were popped
Kept(ch, rec) ==
  LET K[i \in 0..Len(rec.batch)] ==
        IF i = 0 THEN <<>>
        ELSE IF rec.res[i] = "Retry"
                /\ (ch \in DynamicKeys \/ i >= LastStop(rec.batch))
             THEN Append(K[i - 1], rec.batch[i])
             ELSE K[i - 1]
  IN K[Len(rec.batch)]

\* C2: after a drain the queue, read from its back, is the sequence of the
\* commands that returned Retry and were not discarded, in the order they
\* were popped; every queue always has its oldest command at the back, and
\* every drain pops oldest first, so requeued commands are popped in their
\* original order and before any command enqueued after the drain.
C2_RetriedKeepOrder ==
  /\ \A ch \in DOMAIN last :
       /\ Reverse(queues[ch]) = Kept(ch, last[ch])
       /\ IncreasingIds(last[ch].batch)
  /\ \A ch \in Channels : OldestAtBack(queues[ch])

C2_Witness ==
  \E ch \in DOMAIN last :
    /\ Len(last[ch].batch) = 3
    /\ last[ch].res[1] = "Retry"
    /\ last[ch].res[2] = "Ok"
    /\ last[ch].res[3] = "Retry"
    /\ queues[ch] = <<last[ch].batch[3], last[ch].batch[1]>>

\* C3 as stated: a command is never applied before an earlier command of its
\* channel that is pending retry; a later command that returns Ok after an
\* earlier one returned Retry is a Stop that discarded it.
C3_Original ==
  \A ch \in DOMAIN last :
    \A i, j \in 1..Len(last[ch].batch) :
      (i < j /\ last[ch].res[i] = "Retry" /\ last[ch].res[j] = "Ok") =>
        /\ last[ch].batch[j].kind = "Stop"
        /\ last[ch].batch[i] \notin Range(queues[ch])

\* C3: a drain executes the commands of a channel in the order they were
\* enqueued, and a command is applied while an earlier command of its channel
\* is still pending only if the earlier one was executed before it in the same
\* drain and returned Retry.
C3_OvertakingOnlyPastRetries ==
  \A ch \in DOMAIN last :
    /\ IncreasingIds(last[ch].batch)
    /\ \A j \in 1..Len(last[ch].batch), k \in 1..Len(queues[ch]) :
         (last[ch].res[j] = "Ok" /\ queues[ch][k].id < last[ch].batch[j].id) =>
           \E i \in 1..(j - 1) :
             last[ch].batch[i] = queues[ch][k] /\ last[ch].res[i] = "Retry"

C3_Witness ==
  \E ch \in DOMAIN last :
    \E i, j \in 1..Len(last[ch].batch) :
      /\ i < j
      /\ last[ch].batch[i].kind = "Play" /\ last[ch].res[i] = "Retry"
      /\ last[ch].batch[i] \in Range(queues[ch])
      /\ last[ch].batch[j].kind = "Play" /\ last[ch].res[j] = "Ok"
      /\ last[ch].batch[j].handle \in Range(instances[ch])

\* a drain of Play A, Play B, Stop, Play C in which every asset was loaded and
\* the backend accepted every call
FourBatch(ch) ==
  /\ Has(last, ch)
  /\ KindsOf(last[ch].batch) = <<"Play", "Play", "Stop", "Play">>
  /\ AllOk(last[ch])
  /\ AllAccepted(last[ch])

\* C4 as stated: after the drain the active list holds C and neither A nor B.
C4_Original ==
  \A ch \in TypedChannels : FourBatch(ch) =>
    /\ last[ch].batch[4].handle \in Range(instances[ch])
    /\ last[ch].batch[1].handle \notin Range(instances[ch])
    /\ last[ch].batch[2].handle \notin Range(instances[ch])

\* C4: after the drain the active list holds A, B and C in that order; A and B
\* have been sent a stop and are Stopping, C is Playing.  A sound that the
\* backend has not reported Stopped is always in its channel's list.
C4_StoppedStayListed ==
  /\ \A ch \in TypedChannels : FourBatch(ch) =>
       /\ SelectSeq(instances[ch],
                    LAMBDA h : \E i \in 1..4 : h = last[ch].batch[i].handle)
            = <<last[ch].batch[1].handle, last[ch].batch[2].handle,
                last[ch].batch[4].handle>>
       /\ audio_instances[last[ch].batch[1].handle].state = "Stopping"
       /\ audio_instances[last[ch].batch[2].handle].state = "Stopping"
       /\ audio_instances[last[ch].batch[4].handle].state = "Playing"
  /\ \A h \in DOMAIN audio_instances :
       audio_instances[h].state # "Stopped" =>
         (Has(instances, h[1]) /\ h \in Range(instances[h[1]]))

C4_Witness == \E ch \in TypedChannels : FourBatch(ch)

\* C5: after a drain of N Play commands whose assets are loaded and that the
\* backend accepts, the last N entries of the channel's active list are the
\* N handles in the order the commands were enqueued.
C5_ActiveListInEnqueueOrder ==
  \A ch \in DOMAIN last :
    (/\ Len(last[ch].batch) >= 1
     /\ \A i \in 1..Len(last[ch].batch) : last[ch].batch[i].kind = "Play"
     /\ AllOk(last[ch])
     /\ AllAccepted(last[ch])) =>
      /\ IncreasingIds(last[ch].batch)
      /\ Has(instances, ch)
      /\ Len(instances[ch]) >= Len(last[ch].batch)
      /\ SubSeq(instances[ch],
                Len(instances[ch]) - Len(last[ch].batch) + 1, Len(instances[ch]))
           = [i \in 1..Len(last[ch].batch) |-> last[ch].batch[i].handle]

C5_Witness ==
  \E ch \in DOMAIN last :
    /\ KindsOf(last[ch].batch) = <<"Play", "Play", "Play">>
    /\ AllOk(last[ch])
    /\ AllAccepted(last[ch])
    /\ instances[ch] = [i \in 1..3 |-> last[ch].batch[i].handle]

\* a Play of the batch whose source was not loaded when the drain ran
UnloadedPlay(rec, i) ==
  rec.batch[i].kind = "Play" /\ rec.batch[i].source \notin audio_sources

\* the backend was not called for the handle, and no instance exists for it
Untouched(ch, rec, h) ==
  /\ \A k \in 1..Len(rec.calls) : rec.calls[k].h # h
  /\ h \notin DOMAIN audio_instances
  /\ h \notin DOMAIN rec.started
  /\ Has(instances, ch) => h \notin Range(instances[ch])
  /\ plays[h] = 0

\* a drain of nothing but unloaded Plays leaves the channel's settings alone
SettingsKept(ch, rec) ==
  (\A i \in 1..Len(rec.batch) : UnloadedPlay(rec, i)) =>
    /\ Has(channels, ch) <=> rec.had
    /\ rec.had => channels[ch] = rec.pre

\* no handle has had more than one backend sound or more than one list entry
AtMostOnce ==
  /\ \A h \in Handles : plays[h] <= 1
  /\ \A ch \in DOMAIN instances :
       \A i, j \in 1..Len(instances[ch]) :
         instances[ch][i] = instances[ch][j] => i = j
  /\ \A c1, c2 \in DOMAIN instances :
       c1 # c2 => Range(instances[c1]) \cap Range(instances[c2]) = {}

\* C6 as stated: a Play whose source is not loaded at drain time makes no
\* backend call and changes nothing, and is always requeued in the same
\* relative position; a Play makes at most one sound and one list entry.
C6_Original ==
  /\ \A ch \in DOMAIN last :
       /\ \A i \in 1..Len(last[ch].batch) : UnloadedPlay(last[ch], i) =>
            /\ last[ch].res[i] = "Retry"
            /\ Untouched(ch, last[ch], last[ch].batch[i].handle)
            /\ last[ch].batch[i] \in Range(queues[ch])
       /\ SettingsKept(ch, last[ch])
  /\ \A ch \in Channels : OldestAtBack(queues[ch])
  /\ AtMostOnce

\* C6: a Play whose source is not loaded at drain time returns Retry, makes
\* no backend call and changes neither the active list nor the settings; it
\* is requeued unchanged, in the same relative position, unless a Stop popped
\* after it in the same drain of a static-typed channel discards it; a Play
\* makes at most one backend sound and at most one active-list entry.
C6_UnloadedPlayRequeued ==
  /\ \A ch \in DOMAIN last :
       /\ \A i \in 1..Len(last[ch].batch) : UnloadedPlay(last[ch], i) =>
            /\ last[ch].res[i] = "Retry"
            /\ Untouched(ch, last[ch], last[ch].batch[i].handle)
            /\ last[ch].batch[i] \in Range(queues[ch])
                 <=> (ch \in DynamicKeys \/ i > LastStop(last[ch].batch))
       /\ SettingsKept(ch, last[ch])
  /\ \A ch \in Channels : OldestAtBack(queues[ch])
  /\ AtMostOnce

C6_Witness ==
  \E ch \in DOMAIN last :
    /\ last[ch].had
    /\ Len(last[ch].batch) = 1
    /\ UnloadedPlay(last[ch], 1)
    /\ queues[ch] = <<last[ch].batch[1]>>
    /\ channels[ch] = last[ch].pre

\* a Stop waits in the deque of a static-typed channel to be popped after the
\* k-th command
StopBehind(ch, k) ==
  ch \in TypedChannels /\ \E m \in 1..(k - 1) : queues[ch][m].kind = "Stop"

\* a step keeps every queued Play whose source is not loaded and that no
\* Stop waits behind
UnloadedPlayStays ==
  \A ch \in Channels : \A k \in 1..Len(queues[ch]) :
    (/\ queues[ch][k].kind = "Play"
     /\ queues[ch][k].source \notin audio_sources
     /\ ~StopBehind(ch, k)) => queues[ch][k] \in Range(queues'[ch])

\* the Play with this id waits in the channel's queue and its source is loaded
PendingLoaded(ch, id) ==
  /\ manager
  /\ \E k \in 1..Len(queues[ch]) :
       /\ queues[ch][k].id = id /\ queues[ch][k].kind = "Play"
       /\ queues[ch][k].source \in audio_sources

\* the dispatch that has just run handed the Play with this id to the backend
\* and did not requeue it
Dispatched(ch, id) ==
  /\ Has(last, ch)
  /\ \E i \in 1..Len(last[ch].batch) :
       /\ last[ch].batch[i].id = id
       /\ last[ch].res[i] = "Ok"
       /\ \E k \in 1..Len(last[ch].calls) :
            last[ch].calls[k].op = "play"
              /\ last[ch].calls[k].h = last[ch].batch[i].handle
  /\ \A k \in 1..Len(queues[ch]) : queues[ch][k].id # id

\* a queued Play whose source is loaded leaves the queue only in a step that
\* hands it to the backend
LoadedPlayLeavesDispatched ==
  \A ch \in Channels, id \in 1..MaxLive :
    (PendingLoaded(ch, id) /\ ~PendingLoaded(ch, id)') => Dispatched(ch, id)'

\* no queued Play has its source loaded
NoPendingLoaded ==
  \A ch \in Channels, id \in 1..MaxLive : ~PendingLoaded(ch, id)

\* C7: no step removes from its queue a Play whose source is not loaded,
\* however often it has been retried, unless a Stop is popped after it in a
\* static-typed drain; a queued Play whose source is loaded leaves the queue
\* only by being handed to the backend; and with the dispatch systems running
\* every frame, again and again no loaded Play is left waiting, so every
\* queued Play whose source is loaded is eventually handed to the backend
\* and leaves the queue.
C7_RetryUnboundedAndLive ==
  /\ [][UnloadedPlayStays]_vars
  /\ [][LoadedPlayLeavesDispatched]_vars
  /\ []<>NoPendingLoaded

C7_Witness ==
  \E ch \in DOMAIN last : \E i \in 1..Len(last[ch].batch) :
    /\ last[ch].batch[i].id < nextId
    /\ last[ch].batch[i].kind = "Play"
    /\ last[ch].res[i] = "Ok"
    /\ plays[last[ch].batch[i].handle] = 1
    /\ last[ch].batch[i] \notin Range(queues[ch])
    /\ \E j \in 1..Len(last[ch].batch) :
         UnloadedPlay(last[ch], j) /\ last[ch].batch[j] \in Range(queues[ch])

\* the backend answered CommandQueueFull to a call of the drain
SomeFull(rec, op) ==
  \E k \in 1..Len(rec.calls) : rec.calls[k].op = op /\ rec.calls[k].out = "full"

\* C8 as stated: a SetVolume for which the backend reports CommandQueueFull
\* on an active instance returns Retry and is requeued; a SetVolume that
\* returned Ok has been accepted by every active instance.
C8_Original ==
  \A ch \in DOMAIN last : \A i \in 1..Len(last[ch].batch) :
    last[ch].batch[i].kind = "SetVolume" =>
      /\ SomeFull(last[ch], "set_volume") =>
           (last[ch].res[i] = "Retry" /\ last[ch].batch[i] \in Range(queues[ch]))
      /\ last[ch].res[i] = "Ok" => ~SomeFull(last[ch], "set_volume")

\* C9 as stated: a drain of a single Stop, Pause, Resume, SetVolume,
\* SetPanning or SetPlaybackRate during which the backend reports
\* CommandQueueFull returns Retry and requeues the command.
C9_Original ==
  \A ch \in DOMAIN last :
    (/\ Len(last[ch].batch) = 1
     /\ last[ch].batch[1].kind # "Play"
     /\ \E k \in 1..Len(last[ch].calls) : last[ch].calls[k].out = "full") =>
      (last[ch].res[1] = "Retry" /\ queues[ch] = <<last[ch].batch[1]>>)

SettingKinds == {"SetVolume", "SetPanning", "SetPlaybackRate", "Pause", "Resume"}

\* the update a settings command makes to a channel's persistent settings
Updated(cs, cmd) ==
  CASE cmd.kind = "SetVolume" -> [cs EXCEPT !.volume = cmd.value]
    [] cmd.kind = "SetPanning" -> [cs EXCEPT !.panning = cmd.value]
    [] cmd.kind = "SetPlaybackRate" -> [cs EXCEPT !.playback_rate = cmd.value]
    [] cmd.kind = "Pause" -> [cs EXCEPT !.paused = TRUE]
    [] cmd.kind = "Resume" -> [cs EXCEPT !.paused = FALSE]
    [] OTHER -> cs

\* the settings the channel must have after the first i commands of a drain
SettingsAfter(rec, i) ==
  LET F[k \in 0..i] == IF k = 0 THEN rec.pre ELSE Updated(F[k - 1], rec.batch[k])
  IN F[i]

\* the channel has a settings entry after the first i commands of a drain
EntryAfter(rec, i) ==
  rec.had \/ \E k \in 1..i : rec.batch[k].kind \in SettingKinds

\* the sound a Play with default request settings must start from
SoundFrom(cs) ==
  [volume |-> cs.volume, playback_rate |-> IF cs.paused THEN 0 ELSE cs.playback_rate,
   panning |-> cs.panning, reverse |-> FALSE]

\* C10: after a drain the channel's settings are those it had before (the
\* defaults if it had none) updated by every SetVolume, SetPanning,
\* SetPlaybackRate, Pause and Resume of the batch in order, whatever the
\* backend answered and whether or not an instance existed; every sound
\* started by a Play of the batch starts from the settings in force when the
\* Play ran, and on a paused channel the new instance is sent a pause.
C10_SettingsPersist ==
  \A ch \in DOMAIN last :
    /\ Has(channels, ch) <=> EntryAfter(last[ch], Len(last[ch].batch))
    /\ Has(channels, ch) =>
         channels[ch] = SettingsAfter(last[ch], Len(last[ch].batch))
    /\ \A i \in 1..Len(last[ch].batch) :
         Has(last[ch].started, last[ch].batch[i].handle) =>
           IF EntryAfter(last[ch], i - 1)
           THEN /\ last[ch].started[last[ch].batch[i].handle]
                     = SoundFrom(SettingsAfter(last[ch], i - 1))
                /\ SettingsAfter(last[ch], i - 1).paused =>
                     /\ \E k \in 1..Len(last[ch].calls) :
                          /\ last[ch].calls[k].op = "pause"
                          /\ last[ch].calls[k].h = last[ch].batch[i].handle
                          /\ (last[ch].calls[k].out = "ok"
                                /\ i = Len(last[ch].batch)) =>
                               audio_instances[last[ch].batch[i].handle].state
                                 = "Pausing"
           ELSE /\ last[ch].started[last[ch].batch[i].handle] = BaseSound
                /\ i = Len(last[ch].batch) =>
                     audio_instances[last[ch].batch[i].handle].state = "Playing"

C10_Witness ==
  \E ch \in DOMAIN last :
    /\ ~last[ch].had
    /\ instances = EmptyMap \/ ~Has(instances, ch) \/ Len(instances[ch]) = 1
    /\ KindsOf(last[ch].batch) = <<"Pause", "Play">>
    /\ Has(last[ch].started, last[ch].batch[2].handle)
    /\ audio_instances[last[ch].batch[2].handle].state = "Pausing"
    /\ channels[ch] = [DefaultChannelSettings EXCEPT !.paused = TRUE]

\* a drain whose last two commands are SetVolume(v), or a drain of a single
\* SetVolume(v) on a channel whose volume is v already, leaves the volume v;
\* a drain of a single Pause on a paused channel leaves the settings as they
\* were, returns Ok and calls pause only on instances that were Playing
IdempotentStep ==
  \A ch \in Channels : Has(last', ch) =>
    /\ \A i \in 1..(Len(last'[ch].batch) - 1) :
         (/\ i + 1 = Len(last'[ch].batch)
          /\ last'[ch].batch[i].kind = "SetVolume"
          /\ last'[ch].batch[i + 1].kind = "SetVolume"
          /\ last'[ch].batch[i].value = last'[ch].batch[i + 1].value) =>
           channels'[ch].volume = last'[ch].batch[i].value
    /\ (/\ KindsOf(last'[ch].batch) = <<"SetVolume">>
        /\ Has(channels, ch)
        /\ channels[ch].volume = last'[ch].batch[1].value) =>
         channels'[ch] = channels[ch]
    /\ (/\ KindsOf(last'[ch].batch) = <<"Pause">>
        /\ Has(channels, ch)
        /\ channels[ch].paused) =>
         /\ channels'[ch] = channels[ch]
         /\ last'[ch].res = <<"Ok">>
         /\ \A k \in 1..Len(last'[ch].calls) :
              /\ last'[ch].calls[k].op = "pause"
              /\ audio_instances[last'[ch].calls[k].h].state = "Playing"

\* C11: SetVolume(v) executed twice in a row leaves the channel's volume v,
\* and Pause on a channel that is already paused leaves its settings
\* unchanged, returns Ok and sends no pause to an instance that is not
\* Playing.
C11_SettingsIdempotent == [][IdempotentStep]_vars

C11_Witness ==
  \E ch \in DOMAIN last :
    /\ KindsOf(last[ch].batch) = <<"Pause">>
    /\ last[ch].had /\ last[ch].pre.paused
    /\ last[ch].calls = <<>>
    /\ Has(instances, ch)
    /\ \E i \in 1..Len(instances[ch]) :
         audio_instances[instances[ch][i]].state \in {"Pausing", "Paused"}

\* a step in which the drains of some channels returned at once changes
\* no queue, no instance list, no channel settings and no backend sound
SkippedStep ==
  skipped' # {} =>
    /\ ~manager
    /\ queues' = queues
    /\ instances' = instances
    /\ channels' = channels
    /\ audio_instances' = audio_instances
    /\ plays' = plays

\* C12: while the backend manager is absent, a drain of a typed channel or
\* of the dynamic channels is a no-op: queued commands stay queued in their
\* order, and no instance list, channel settings or sound changes.
C12_NoManagerDrainIsNoOp == [][SkippedStep]_vars

C12_Witness ==
  /\ ~manager
  /\ \E ch \in skipped :
       /\ Len(queues[ch]) >= 2
       /\ \E i \in 1..Len(queues[ch]) :
            /\ queues[ch][i].kind = "Play"
            /\ queues[ch][i].source \in audio_sources

\* C13 as stated: with the backend manager absent, no system panics
C13_Original == ~manager => ~crashed

\* the responses of the drain with every non-capacity error taken away
CalmResp(calls) ==
  [h \in Handles |->
     IF \E k \in 1..Len(calls) : calls[k].h = h /\ calls[k].out = "full"
     THEN "full" ELSE "ok"]

\* the handles whose manager.play failed, and those with any failed call
FailedPlays(calls) ==
  {calls[k].h : k \in {j \in 1..Len(calls) : calls[j].op = "play" /\ calls[j].out = "err"}}

Erred(calls) ==
  {calls[k].h : k \in {j \in 1..Len(calls) : calls[j].out = "err"}}

\* the calls as attempted, without their outcomes, leaving out what the
\* handles in skip would have received after their play
Attempts(calls, skip) ==
  [k \in 1..Len(SelectSeq(calls, LAMBDA e : e.h \notin skip \/ e.op = "play")) |->
     [op |-> SelectSeq(calls, LAMBDA e : e.h \notin skip \/ e.op = "play")[k].op,
      h |-> SelectSeq(calls, LAMBDA e : e.h \notin skip \/ e.op = "play")[k].h]]

\* the drain of ch that has just run agrees with the drain e of the same
\* queue in which no non-capacity error happens: the same results, the same
\* queue afterwards, the same settings, the same instance lists but for the
\* sounds that were not created, and for every instance no call failed on
\* the same backend calls and the same sound
SameButFor(ch, e, failed, erred) ==
  /\ queues'[ch] = e.commands
  /\ last'[ch].res = e.res
  /\ last'[ch].batch = e.batch
  /\ channels' = e.st.channels
  /\ \A c \in Channels :
       (IF Has(instances', c) THEN instances'[c] ELSE <<>>) =
         SelectSeq(handles_of(e.st, c), LAMBDA h : h \notin failed)
  /\ Attempts(last'[ch].calls, erred) = Attempts(e.st.calls, erred)
  /\ \A h \in (DOMAIN e.st.ai) \ erred :
       Has(audio_instances', h) /\ audio_instances'[h] = e.st.ai[h]
  /\ \A h \in failed :
       /\ ~Has(audio_instances', h)
       /\ \A i \in 1..Len(queues'[ch]) : queues'[ch][i].handle # h
       /\ \A i \in 1..Len(last'[ch].batch) :
            last'[ch].batch[i].handle = h => last'[ch].res[i] = "Ok"

ErrorsStayLocal ==
  \A ch \in TypedChannels : Has(last', ch) =>
    \E e \in {play_channel(Dispatcher, queues[ch], ch, CalmResp(last'[ch].calls), {})} :
      SameButFor(ch, e, FailedPlays(last'[ch].calls), Erred(last'[ch].calls))

C14_FailedPlaySeen ==
  \E ch \in DOMAIN last :
    /\ Len(last[ch].batch) = 3
    /\ last[ch].batch[1].kind = "Play"
    /\ last[ch].batch[1].handle \in FailedPlays(last[ch].calls)
    /\ last[ch].batch[2].kind = "Play"
    /\ Has(last[ch].started, last[ch].batch[2].handle)
    /\ last[ch].batch[3].kind = "Pause"
    /\ Len(last[ch].calls) = 3

\* a drain executes the commands that were queued when it started, each
\* once and the oldest first, and leaves in the queue only commands it
\* executed with the result Retry
DrainsWhatWasQueued ==
  \A ch \in Channels : Has(last', ch) =>
    /\ last'[ch].batch = Reverse(queues[ch])
    /\ Len(last'[ch].res) = Len(queues[ch])
    /\ \A i \in 1..Len(queues'[ch]) :
         \E j \in 1..Len(last'[ch].batch) :
           /\ last'[ch].batch[j] = queues'[ch][i]
           /\ last'[ch].res[j] = "Retry"

\* C15: a drain of a channel pops exactly as many commands as the queue held
\* when it started, also when every command returns Retry; no command is
\* executed twice in one drain; every command queued before the drain is
\* attempted in it, and nothing else is.
C15_DrainPopsInitialLength == [][DrainsWhatWasQueued]_vars

C15_Witness ==
  \E ch \in DynamicKeys :
    /\ Has(last, ch)
    /\ Len(last[ch].batch) >= 2
    /\ \A i \in 1..Len(last[ch].res) : last[ch].res[i] = "Retry"
    /\ Len(queues[ch]) = Len(last[ch].batch)

\* C16 as stated: no producer waits for the lock of a channel's deque
\* while a backend call of the drain is in progress
C16_Original == ~(pc = "calling" /\ lock # "free" /\ waiting # EmptyMap)

\* in how many places the command with this id is: blocked in que(), in the
\* deque of ch, in the commands_to_retry of the drain in progress, executed,
\* or discarded by a Stop
PlacesOf(id, ch) ==
  Cardinality({p \in DOMAIN waiting : waiting[p].id = id})
  + Cardinality({i \in 1..Len(queues[ch]) : queues[ch][i].id = id})
  + Cardinality({i \in 1..Len(cur.commands_to_retry) : cur.commands_to_retry[i].id = id})
  + (IF id \in hist.ok THEN 1 ELSE 0)
  + (IF id \in hist.discarded THEN 1 ELSE 0)

\* the commands of one producer lie in the deque in the order of their
\* enqueuing, the newest nearest the front
ProducerOrderKept(ch) ==
  \A i, j \in 1..Len(queues[ch]) :
    (i < j /\ hist.owner[queues[ch][i].id] = hist.owner[queues[ch][j].id]) =>
      queues[ch][i].id > queues[ch][j].id

\* C17: for every interleaving of producers with each other and with the
\* steps of a drain, every command enqueued so far is in exactly one place:
\* waiting for the lock, in the queue, kept for the requeue, executed, or
\* discarded by a Stop; and the commands of one producer keep their order in
\* the queue.
C17_NothingLostOrDuplicated ==
  \A ch \in TypedChannels :
    /\ \A id \in 1..nextId : PlacesOf(id, ch) = 1
    /\ ProducerOrderKept(ch)
    /\ DOMAIN hist.owner = 1..nextId

C17_Witness ==
  /\ lock # "free"
  /\ waiting # EmptyMap
  /\ cur.commands_to_retry # <<>>
  /\ hist.ok # {}
  /\ nextId = MaxLockCmds

\* the commands with this id in the queue of ch
Queued(id, ch) == {i \in 1..Len(queues[ch]) : queues[ch][i].id = id}

\* the command the builder b (now out of scope) left in its queue
Finalised(id, b, command) ==
  /\ command.kind = b.kind
  /\ command.value = b.value
  /\ b.type = "play" =>
       /\ command.kind = "Play"
       /\ command.handle = b.instance_handle
       /\ b.handed \subseteq {command.handle}
       /\ command.source = b.source
       /\ command.settings.paused = (b.asked.paused # None)
       /\ command.settings.volume = b.asked.with_volume
       /\ command.settings.reverse = None
       /\ command.settings.playback_rate = None
       /\ command.settings.panning = None
  /\ b.type = "tween" => command.tween = b.asked.fade

\* C18: a builder in scope has enqueued nothing; a builder that went out of
\* scope has enqueued exactly one command, on its own channel's queue: for a
\* PlayAudioCommand a Play with the handle of its construction (the one
\* handle() returned), its source and the settings its setters accumulated,
\* for a TweenCommand the command of its kind with the last tween set or
\* none; and no two PlayAudioCommands have the same handle.
C18_BuildersFinalisedOnce ==
  /\ \A id \in 1..nextId :
       /\ Has(builders, id) # Has(dropped, id)
       /\ Has(builders, id) => \A ch \in Channels : Queued(id, ch) = {}
       /\ Has(dropped, id) =>
            /\ \A ch \in Channels : Cardinality(Queued(id, ch)) =
                                     (IF ch = dropped[id].ch THEN 1 ELSE 0)
            /\ \A i \in Queued(id, dropped[id].ch) :
                 Finalised(id, dropped[id], queues[dropped[id].ch][i])
  /\ \A ch \in Channels : \A i \in 1..Len(queues[ch]) : queues[ch][i].id \in 1..nextId
  /\ \A id1, id2 \in 1..nextId :
       \A b1 \in {(builders @@ dropped)[id1]}, b2 \in {(builders @@ dropped)[id2]} :
         (id1 # id2 /\ b1.type = "play" /\ b2.type = "play") =>
           b1.instance_handle # b2.instance_handle

C18_Witness ==
  \E id1, id2 \in DOMAIN dropped :
    /\ dropped[id1].type = "play"
    /\ dropped[id1].handed # {}
    /\ dropped[id1].asked.with_volume # None
    /\ dropped[id1].asked.paused # None
    /\ dropped[id2].type = "tween"
    /\ dropped[id2].asked.fade # None
    /\ \E ch \in Channels : Len(queues[ch]) = 2

\* what a channel owns: its queue, its settings, its instance list and the
\* sounds of its instances are the same after the step as before it
Untouched19(y) ==
  /\ queues'[y] = queues[y]
  /\ Has(channels', y) = Has(channels, y)
  /\ Has(channels, y) => channels'[y] = channels[y]
  /\ Has(instances', y) = Has(instances, y)
  /\ Has(instances, y) => instances'[y] = instances[y]
  /\ \A h \in DOMAIN audio_instances :
       h[1] = y => Has(audio_instances', h) /\ audio_instances'[h] = audio_instances[h]
  /\ \A h \in DOMAIN audio_instances' : h[1] = y => Has(audio_instances, h)

DrainKeepsToItsChannel ==
  \A x \in DOMAIN last' :
    /\ last'[x].stray = <<>>
    /\ \A y \in Channels \ DOMAIN last' : Untouched19(y)

ListBefore(ch) == IF Has(instances, ch) THEN instances[ch] ELSE <<>>

ListAfter(ch) == IF Has(instances', ch) THEN instances'[ch] ELSE <<>>

\* the step removes nothing from any list: each list is extended at its end
OnlyAppends ==
  \A ch \in Channels :
    /\ Len(ListBefore(ch)) <= Len(ListAfter(ch))
    /\ SubSeq(ListAfter(ch), 1, Len(ListBefore(ch))) = ListBefore(ch)

\* the step takes from every list the handles whose sound is Stopped or
\* unknown, and nothing else, keeping the order of the rest
ExactSweep ==
  /\ audio_instances' = audio_instances
  /\ \A ch \in Channels :
       ListAfter(ch) =
         SelectSeq(ListBefore(ch),
                   LAMBDA h : h \in DOMAIN audio_instances
                              /\ audio_instances[h].state \in SoundStates \ {"Stopped"})

SweepIsOnlyRemoval ==
  /\ OnlyAppends \/ ExactSweep
  /\ (last' # NoDrain) => OnlyAppends

\* C20: a step that shortens an active-instance list is a sweep: it removes
\* from every list exactly the handles whose sound is Stopped (or unknown)
\* and keeps the others in their order; a drain, whatever its commands,
\* only appends to the lists.
C20_OnlySweepRemoves == [][SweepIsOnlyRemoval]_vars

C20_Witness ==
  \E ch \in Channels : \E h \in Handles :
    /\ h[1] = ch
    /\ plays[h] > 0
    /\ audio_instances[h].state = "Stopped"
    /\ Has(instances, ch)
    /\ instances[ch] # <<>>
    /\ \A i \in 1..Len(instances[ch]) : instances[ch][i] # h
    /\ \E i \in 1..Len(instances[ch]) :
         /\ instances[ch][i][2] > h[2]
         /\ audio_instances[instances[ch][i]].state = "Stopping"

\* C21 as stated: no backend call of a drain takes a sound that is Stopping
\* to a state other than Stopping or Stopped
C21_Original ==
  \A ch \in DOMAIN last :
    \A k \in 1..Len(last[ch].calls) :
      last[ch].calls[k].was = "Stopping" =>
        last[ch].calls[k].now \in {"Stopping", "Stopped"}

\* a handle whose sound is Stopped is in no list once a sweep has run, and
\* no step puts a handle of a Stopped sound back into a list
StoppedStaysOut ==
  \A ch \in Channels :
    \A i \in 1..Len(ListAfter(ch)) :
      (/\ Has(audio_instances, ListAfter(ch)[i])
       /\ audio_instances[ListAfter(ch)[i]].state = "Stopped") =>
        \E j \in 1..Len(ListBefore(ch)) : ListBefore(ch)[j] = ListAfter(ch)[i]

\* the handles of the list of ch whose sound was in one of the states
\* before the step
ListedIn(ch, states) ==
  {h \in Range(ListBefore(ch)) :
     Has(audio_instances, h) /\ audio_instances[h].state \in states}

\* the handles the drain of ch called op on
CalledWith(ch, op) ==
  {last'[ch].calls[k].h : k \in {j \in 1..Len(last'[ch].calls) :
                                   last'[ch].calls[j].op = op}}

\* every pause of a drain finds its sound Playing and every resume finds it
\* Paused, Pausing or Stopping; a drain of a single Pause pauses exactly the
\* listed instances that were Playing, and a drain of a single Resume
\* resumes exactly those that were Paused, Pausing or Stopping
PauseResumeByState ==
  \A ch \in DOMAIN last' :
    /\ \A k \in 1..Len(last'[ch].calls) :
         /\ last'[ch].calls[k].op = "pause" => last'[ch].calls[k].was = "Playing"
         /\ last'[ch].calls[k].op = "resume" =>
              last'[ch].calls[k].was \in {"Paused", "Pausing", "Stopping"}
    /\ KindsOf(last'[ch].batch) = <<"Pause">> =>
         /\ CalledWith(ch, "pause") = ListedIn(ch, {"Playing"})
         /\ Len(last'[ch].calls) = Cardinality(ListedIn(ch, {"Playing"}))
    /\ KindsOf(last'[ch].batch) = <<"Resume">> =>
         /\ CalledWith(ch, "resume") = ListedIn(ch, {"Paused", "Pausing", "Stopping"})
         /\ Len(last'[ch].calls) =
              Cardinality(ListedIn(ch, {"Paused", "Pausing", "Stopping"}))

\* C22: a Pause sends a backend pause only to the listed instances that are
\* Playing, a Resume sends a backend resume only to those that are Paused,
\* Pausing or Stopping; instances in any other state, Stopped ones that
\* were not swept yet included, get no call from these commands.
C22_PauseResumeOnlyWhereMeaningful == [][PauseResumeByState]_vars

C22_Witness ==
  \E ch \in DOMAIN last :
    /\ KindsOf(last[ch].batch) = <<"Pause">>
    /\ Len(last[ch].calls) = 1
    /\ Has(instances, ch)
    /\ Len(instances[ch]) = 2
    /\ \E i \in 1..2 : audio_instances[instances[ch][i]].state = "Stopped"

C22_ResumeSeen ==
  \E ch \in DOMAIN last :
    /\ KindsOf(last[ch].batch) = <<"Resume">>
    /\ Len(last[ch].calls) = 1
    /\ last[ch].calls[1].was = "Pausing"

\* the drain of ch was of a single Play that reached manager.play
OnePlayStarted(ch) ==
  /\ Has(last, ch)
  /\ KindsOf(last[ch].batch) = <<"Play">>
  /\ Has(last[ch].started, last[ch].batch[1].handle)

\* C23 as stated: a Play dispatched on a channel whose paused flag is set
\* hands the sound to the backend with playback rate 0, whatever the request
\* asks for
C23_Original ==
  \A ch \in Channels :
    (OnePlayStarted(ch) /\ last[ch].had /\ last[ch].pre.paused) =>
      last[ch].started[last[ch].batch[1].handle].playback_rate = 0

\* the volume of ch when command k of the drain ran: the value of the last
\* SetVolume popped before it, or the volume the drain started from
VolumeBefore(ch, k) ==
  LET sets == {i \in 1..(k - 1) : last[ch].batch[i].kind = "SetVolume"}
  IN  IF sets = {} THEN last[ch].pre.volume
      ELSE last[ch].batch[CHOOSE i \in sets : \A j \in sets : j <= i].value

\* the factor a request contributes: its volume, or 1.0 when it sets none
RequestFactor(settings) ==
  IF settings.volume = None THEN DefaultVolume ELSE settings.volume

\* C24: the volume of a sound handed to the backend is channel volume x base
\* volume x request volume, with factor 1.0 for a request that sets none,
\* in every interleaving of this channel's SetVolume commands and the
\* commands of other channels (0.5 x 1.0 x 0.8 = 0.4)
C24_VolumeComposes ==
  \A ch \in DOMAIN last : \A k \in 1..Len(last[ch].batch) :
    (last[ch].batch[k].kind = "Play" /\ Has(last[ch].started, last[ch].batch[k].handle)) =>
      last[ch].started[last[ch].batch[k].handle].volume =
        (((VolumeBefore(ch, k) * BaseSound.volume) \div 100)
           * RequestFactor(last[ch].batch[k].settings)) \div 100

\* a request with volume 0.8 started at 0.4 on a channel set to 0.5, after
\* the other channel had its volume set too
C24_Witness ==
  \E ch \in TypedChannels : \E key \in DynamicKeys :
    /\ Has(last, ch) /\ Has(channels, key)
    /\ \E k \in 1..Len(last[ch].batch) :
         /\ last[ch].batch[k].kind = "Play"
         /\ last[ch].batch[k].settings.volume = 80
         /\ Has(last[ch].started, last[ch].batch[k].handle)
         /\ last[ch].started[last[ch].batch[k].handle].volume = 40

\* C25 as stated: a backend stop issued during a drain reaches only instances
\* whose Play was enqueued before a Stop of that drain, so some Stop of the
\* batch carries a later enqueue number than the instance stopped
C25_Original ==
  \A ch \in DOMAIN last : \A k \in 1..Len(last[ch].calls) :
    last[ch].calls[k].op = "stop" =>
      \E i \in 1..Len(last[ch].batch) :
        /\ last[ch].batch[i].kind = "Stop"
        /\ last[ch].batch[i].id > last[ch].calls[k].h[2]

\* C26 as stated: whatever a dynamic channel has queued, and whatever the
\* assets and the backend answer, draining it as play_dynamic_channels does
\* and draining it as play_channel does leave the same queue, the same
\* active-instance lists and the same channel settings
C26_Original ==
  \A key \in DynamicKeys :
    manager =>
      \A resp \in RespChoices(CalledHandles(key, queues[key])) :
        \A perr \in SUBSET PlayHandles(queues[key]) :
          \A d \in {play_dynamic_channel(Dispatcher, queues[key], key, resp, perr)} :
            \A t \in {play_channel(Dispatcher, queues[key], key, resp, perr)} :
              /\ d.commands = t.commands
              /\ d.st.instances = t.st.instances
              /\ d.st.channels = t.st.channels

\* whether a Play with these settings reverses the sound
Reverses(settings) == partial_apply(settings, BaseSound).reverse

\* the Play commands in the queues that the builder id enqueued
QueuedBy(id) ==
  {c \in UNION {Range(queues[ch]) : ch \in Channels} : c.kind = "Play" /\ c.id = id}

\* C27: reverse() toggles: the Play a builder enqueues reverses the sound
\* exactly when reverse() was called on it an odd number of times, both as
\* the command sits in the queue and as its sound reaches the backend
C27_ReverseToggles ==
  \A id \in DOMAIN dropped :
    /\ \A c \in QueuedBy(id) : Reverses(c.settings) = (dropped[id].asked.reverse % 2 = 1)
    /\ \A ch \in DOMAIN last :
         Has(last[ch].started, dropped[id].instance_handle) =>
           last[ch].started[dropped[id].instance_handle].reverse
             = (dropped[id].asked.reverse % 2 = 1)

\* one drain started the sound of a builder reverse() was called on twice,
\* forwards, and the sound of a builder it was called on three times, reversed
C27_Witness ==
  \E id \in DOMAIN dropped, other \in DOMAIN dropped, ch \in DOMAIN last :
    /\ dropped[id].asked.reverse = 2
    /\ Has(last[ch].started, dropped[id].instance_handle)
    /\ ~last[ch].started[dropped[id].instance_handle].reverse
    /\ dropped[other].asked.reverse = 3
    /\ Has(last[ch].started, dropped[other].instance_handle)
    /\ last[ch].started[dropped[other].instance_handle].reverse

\* the places of the set_playback_rate calls among the calls of the drain
RateCalls(ch) ==
  {k \in 1..Len(last[ch].calls) : last[ch].calls[k].op = "set_playback_rate"}

\* C28 as stated: a Play that starts paused and sets no playback rate gets,
\* after its pause, the playback rate of its channel, whether the channel is
\* paused or not
C28_Original ==
  \A ch \in Channels :
    (/\ OnePlayStarted(ch)
     /\ last[ch].batch[1].settings.paused
     /\ last[ch].batch[1].settings.playback_rate = None) =>
      /\ RateCalls(ch) # {}
      /\ \A k \in RateCalls(ch) :
           (\A j \in RateCalls(ch) : j <= k) =>
             last[ch].calls[k].v = last[ch].pre.playback_rate

\* a is b with some of its elements left out
RECURSIVE IsSubSeq(_, _)
IsSubSeq(a, b) ==
  IF a = <<>> THEN TRUE
  ELSE IF b = <<>> THEN FALSE
  ELSE IF Head(a) = Head(b) THEN IsSubSeq(Tail(a), Tail(b))
  ELSE IsSubSeq(a, Tail(b))

\* the enqueue numbers of the commands in the queues of qs
QueuedIds(qs) == {c.id : c \in UNION {Range(qs[ch]) : ch \in Channels}}

\* what a drain does to the queue of each channel it drained
DrainShrinksQueue ==
  \A ch \in Channels : Has(last', ch) =>
    /\ IsSubSeq(queues'[ch], queues[ch])
    /\ \A j \in 1..Len(last'[ch].batch) :
         /\ last'[ch].batch[j] \in Range(queues[ch])
         /\ last'[ch].res[j] = "Ok" => last'[ch].batch[j] \notin Range(queues'[ch])
    /\ \A i, j \in 1..Len(queues'[ch]) :
         queues'[ch][i] = queues'[ch][j] => i = j

\* a command that has left the queues is in no queue again
GoneStaysGone ==
  (QueuedIds(queues') \cap (1..nextId)) \subseteq QueuedIds(queues)

\* C29: a drain never grows or duplicates the queue: the queue after it is
\* a sub-sequence of the queue before it, without the commands that returned
\* Ok and without repetitions; a drain executes only commands of the queue and
\* a command once out of the queue never returns to one, so a command that
\* returned Ok is not executed again in a later tick
C29_DrainOnlyShrinksQueue == [][DrainShrinksQueue /\ GoneStaysGone]_vars

\* a drain of a dynamic channel kept the first and the third of three
\* commands for a retry and dropped the second, which returned Ok
C29_Witness ==
  \E ch \in DynamicKeys :
    /\ Has(last, ch)
    /\ last[ch].res = <<"Retry", "Ok", "Retry">>
    /\ queues[ch] = <<last[ch].batch[3], last[ch].batch[1]>>

\* the places of the handle h in the active-instance lists
ListPlaces(h) ==
  {p \in UNION {{<<ch, i>> : i \in 1..Len(instances[ch])} : ch \in DOMAIN instances} :
     instances[p[1]][p[2]] = h}

\* the handles of the Play commands pending in the queues
PendingHandles ==
  {c.handle : c \in {x \in UNION {Range(queues[ch]) : ch \in Channels} : x.kind = "Play"}}

\* C30: an instance handle is in at most one place: it occurs at most once
\* over the active-instance lists of all channels, and the handle of a Play
\* still pending in a queue is in no list
C30_HandleInOnePlace ==
  /\ \A h \in Handles : Cardinality(ListPlaces(h)) <= 1
  /\ \A h \in PendingHandles : ListPlaces(h) = {}

\* both channels list an instance while a Play is pending in a queue
C30_Witness ==
  /\ \A ch \in Channels : Has(instances, ch) /\ instances[ch] # <<>>
  /\ PendingHandles # {}

\* the places of the Stop commands in the queue of ch
StopsQueued(ch) == {i \in 1..Len(queues[ch]) : queues[ch][i].kind = "Stop"}

\* the places of the Stop commands in the batch of the drain of ch
StopsPopped(ch) == {j \in 1..Len(last[ch].batch) : last[ch].batch[j].kind = "Stop"}

\* C31: right after a drain of a static-typed channel the requeued commands
\* hold at most one Stop, and a requeued Stop is the command the next drain
\* pops first; a Stop that returned Retry and has no Stop after it in the
\* batch is requeued, and every command popped before a Stop of the batch,
\* an earlier retried Stop included, is discarded
C31_RetriedStopIsOldest ==
  \A ch \in TypedChannels : Has(last, ch) =>
    /\ StopsQueued(ch) \subseteq {Len(queues[ch])}
    /\ StopsQueued(ch) # {} => back(queues[ch]).kind = "Stop"
    /\ \A j \in StopsPopped(ch) :
         /\ \A i \in 1..(j - 1) : last[ch].batch[i] \notin Range(queues[ch])
         /\ (last[ch].res[j] = "Retry" /\ \A k \in StopsPopped(ch) : k <= j)
              => last[ch].batch[j] \in Range(queues[ch])

\* a drain requeued a Stop and, ahead of it, a Play popped after it
C31_Witness ==
  \E ch \in TypedChannels :
    /\ Has(last, ch)
    /\ Len(queues[ch]) = 2
    /\ back(queues[ch]).kind = "Stop"
    /\ front(queues[ch]).kind = "Play"

\* a drain popped two Stops that both returned Retry and requeued the later
C31_EarlierStopDiscarded ==
  \E ch \in TypedChannels :
    /\ Has(last, ch)
    /\ KindsOf(last[ch].batch) = <<"Stop", "Stop">>
    /\ last[ch].res = <<"Retry", "Retry">>
    /\ queues[ch] = <<last[ch].batch[2]>>

\* the settings in force on ch: those stored, or the defaults when none are
InForce(chs, ch) == IF Has(chs, ch) THEN chs[ch] ELSE DefaultChannelSettings

\* the place of the last command of one of the kinds in the batch, 0 if none
LastOf(batch, kinds) ==
  IF \E i \in 1..Len(batch) : batch[i].kind \in kinds
  THEN CHOOSE i \in 1..Len(batch) :
         /\ batch[i].kind \in kinds
         /\ \A j \in 1..Len(batch) : batch[j].kind \in kinds => j <= i
  ELSE 0

\* the value a field has after the batch: the argument of the last command
\* of the kind that writes it, or the value before
FieldAfter(batch, kind, before) ==
  IF LastOf(batch, {kind}) = 0 THEN before ELSE batch[LastOf(batch, {kind})].value

\* what one step does to the settings: a channel that is not drained keeps
\* them; a drained channel gets, field by field, what the last command
\* writing that field says, and a batch of Plays and Stops writes nothing
SettingsStep ==
  \A ch \in Channels :
    IF ~Has(last', ch)
    THEN Has(channels', ch) = Has(channels, ch)
         /\ InForce(channels', ch) = InForce(channels, ch)
    ELSE /\ InForce(channels', ch).paused =
              IF LastOf(last'[ch].batch, {"Pause", "Resume"}) = 0
              THEN InForce(channels, ch).paused
              ELSE last'[ch].batch[LastOf(last'[ch].batch, {"Pause", "Resume"})].kind = "Pause"
         /\ InForce(channels', ch).volume =
              FieldAfter(last'[ch].batch, "SetVolume", InForce(channels, ch).volume)
         /\ InForce(channels', ch).panning =
              FieldAfter(last'[ch].batch, "SetPanning", InForce(channels, ch).panning)
         /\ InForce(channels', ch).playback_rate =
              FieldAfter(last'[ch].batch, "SetPlaybackRate", InForce(channels, ch).playback_rate)
         /\ (\A i \in 1..Len(last'[ch].batch) : last'[ch].batch[i].kind \in {"Play", "Stop"})
              => Has(channels', ch) = Has(channels, ch)

\* before any command was enqueued no channel is paused
NotPausedAtFirst ==
  nextId = 0 => \A ch \in Channels : ~InForce(channels, ch).paused

\* C32: Play and Stop never change the settings of any channel; the paused
\* flag of a channel is that of the last Pause or Resume executed on it and
\* false before any; SetVolume, SetPanning and SetPlaybackRate each write
\* their own field only
C32_SettingsFrame == [][NotPausedAtFirst /\ SettingsStep]_vars

\* a Play started on a channel an earlier drain had paused, and the channel
\* is still paused
C32_Witness ==
  \E ch \in Channels :
    /\ OnePlayStarted(ch)
    /\ last[ch].pre.paused
    /\ channels[ch].paused

\* one drain ran Pause, then Resume, and the channel is not paused
C32_ResumeLast ==
  \E ch \in Channels :
    /\ Has(last, ch)
    /\ KindsOf(last[ch].batch) = <<"Pause", "Resume">>
    /\ ~channels[ch].paused

====
